---- MODULE Spec2Model ----
(***************************************************************************)
(* Verification model of the EERR engine of ynk_store_planner:             *)
(*   - io/excel.py: load_sales, load_contribution (Real/Budget de-dup),    *)
(*   - domain/eerr.py: variable_rent_threshold, build_eerr,                *)
(*     _append_missing_months, build_breakeven_table_full_range,           *)
(*   - domain/uf.py: uf_promedio_mensual over load_uf_diaria,              *)
(*   - interfaces/state_report.py: _prepare_store_data (rent details),     *)
(*   - arriendos/service.py: temporary modifications and their audit log.  *)
(*                                                                         *)
(* Python floats are modelled as exact extended rationals <<n, d>>:        *)
(*   d > 0  a finite value n/d in lowest terms,                            *)
(*   <<1,0>> +inf, <<-1,0>> -inf, <<0,0>> NaN,                             *)
(* and Python's None as the sentinel <<0,-1>>.  Rounding is not modelled.  *)
(***************************************************************************)
EXTENDS Integers, Sequences, FiniteSets, TLC

VARIABLES
    pc,          \* position of the running entry point
    thM,         \* variable_rent_threshold: argument arriendo_minimo_clp
    thP,         \* variable_rent_threshold: argument arriendo_porcentual
    thOut,       \* variable_rent_threshold: returned value (Unset before the call)
    rowIn,       \* build_eerr: one merged row before fillna (NoRow when unused)
    rowOut,      \* build_eerr: the metrics computed for rowIn (NoRow before)
    rentFila,    \* the store's row of the Arriendos sheet (NoRow when it has none)
    src,         \* the workbook D1: layout and the four value sheets
    ventas,      \* load_sales(): long table of sales rows
    contrib,     \* load_contribution(): long table of margin rows
    eerrPre,     \* build_eerr: eerr handed to _append_missing_months
    eerrFilled,  \* build_eerr: eerr returned by _append_missing_months
    eerr,        \* build_eerr: the returned table
    beIn,        \* break-even solver: the store's base row and the call arguments
    bePaso,      \* break-even solver: next grid step of the loop
    beRes,       \* break-even solver: resultados appended so far
    ufSrc,       \* uf.py: the UF source sheet, day -> value (NoSrc when unused)
    ufMeses,     \* uf_promedio_mensual: the requested months
    ufOut,       \* uf_promedio_mensual: its outcome (estado unset before the call)
    tmMods,      \* arriendos: rows of table temporary_modifications, by id
    tmAudit,     \* arriendos: rows of table arriendos_audit_log, in insertion order
    tmLast,      \* arriendos: the last service call and its outcome code
    srIn,        \* state report: the store's base row, mes_referencia and uf_vigente
    srOut,       \* state report: the rent_details built for the store (NoRow before)
    stRow,       \* load_staff_costs: one row of sheet Dotacion, column -> headcount
    stCostos,    \* load_staff_costs: sheet Costos, role -> fixed components and commission
    stOut,       \* load_staff_costs: the record built for the row (NoRow before)
    fwMtime,     \* file watcher: data file -> st_mtime on disk
    fwTimestamps,\* FileWatcher.timestamps, data file -> cached mtime (0 when it has no entry)
    fwCache,     \* file watcher: the timestamps saved in .data_cache.json
    fwChanged,   \* run_auto_regenerate: the files the last check_changes reported
    fwFallidos,  \* files whose reported change met a failed generate_reports and that were not modified nor regenerated since
    bkDb,        \* arriendos backups: the live database (ids of backup_metadata, latest audit row)
    bkFiles,     \* arriendos backups: files of BACKUP_DIR, backup id -> database snapshot
    bkNow,       \* arriendos backups: the wall clock, in seconds
    bkLockB,     \* _BACKUP_LOCK: the thread holding it, 0 when free
    bkLockR,     \* _RESTORE_LOCK: the thread holding it, 0 when free
    bkCall,      \* arriendos backups: per thread, the position and locals of its call in progress
    bkRes,       \* arriendos backups: the last finished call and its outcome
    scStores,    \* arriendos: ids of the rows of table stores
    scContracts, \* arriendos: rows of table store_contracts, by id
    scAudit,     \* arriendos: the (action, store_id) pairs logged for stores
    scLast,      \* arriendos: the last store call and its outcome code
    tbPaso,      \* build_break_even_table: next step of its margin grid
    beTabla      \* build_break_even_table: rows appended so far

thVars == <<thM, thP, thOut>>

rowVars == <<rowIn, rowOut, rentFila>>

pipeVars == <<src, ventas, contrib, eerrPre, eerrFilled, eerr>>

beVars == <<beIn, bePaso, beRes>>

ufVars == <<ufSrc, ufMeses, ufOut>>

tmVars == <<tmMods, tmAudit, tmLast>>

srVars == <<srIn, srOut>>

stVars == <<stRow, stCostos, stOut>>

fwVars == <<fwMtime, fwTimestamps, fwCache, fwChanged, fwFallidos>>

bkVars == <<bkDb, bkFiles, bkNow, bkLockB, bkLockR, bkCall, bkRes>>

scVars == <<scStores, scContracts, scAudit, scLast>>

tbVars == <<tbPaso, beTabla>>

vars == <<pc, thM, thP, thOut, rowIn, rowOut, rentFila, src, ventas, contrib, eerrPre, eerrFilled,
          eerr, beIn, bePaso, beRes,
          ufSrc, ufMeses, ufOut,
          tmMods, tmAudit, tmLast,
          srIn, srOut,
          stRow, stCostos, stOut,
          fwMtime, fwTimestamps, fwCache, fwChanged, fwFallidos,
          bkDb, bkFiles, bkNow, bkLockB, bkLockR, bkCall, bkRes,
          scStores, scContracts, scAudit, scLast,
          tbPaso, beTabla>>

----------------------------------------------------------------------------
(* Extended rational arithmetic (the float operations the code uses).      *)

NaN == <<0, 0>>
Inf == <<1, 0>>
NegInf == <<-1, 0>>
None == <<0, -1>>
Unset == <<0, -2>>

Abs(x) == IF x < 0 THEN -x ELSE x

Sgn(x) == IF x < 0 THEN -1 ELSE IF x > 0 THEN 1 ELSE 0

RECURSIVE GCD(_, _)
GCD(a, b) == IF b = 0 THEN a ELSE GCD(b, a % b)

Norm(n, d) ==
    IF d = 0 THEN <<Sgn(n), 0>>
    ELSE LET g == GCD(Abs(n), Abs(d))
         IN  <<(Sgn(d) * n) \div g, Abs(d) \div g>>

R(n) == <<n, 1>>

Frac(n, d) == Norm(n, d)

IsNaN(a) == a = NaN

IsFinite(a) == a[2] > 0

RNeg(a) == <<-a[1], a[2]>>

RAdd(a, b) ==
    IF a[2] > 0 /\ b[2] > 0 THEN Norm(a[1] * b[2] + b[1] * a[2], a[2] * b[2])
    ELSE IF IsNaN(a) \/ IsNaN(b) THEN NaN
    ELSE IF a[2] = 0 /\ b[2] = 0 THEN (IF a[1] = b[1] THEN a ELSE NaN)
    ELSE IF a[2] = 0 THEN a ELSE b

RSub(a, b) == RAdd(a, RNeg(b))

RMul(a, b) == Norm(a[1] * b[1], a[2] * b[2])

RInv(a) == Norm(Sgn(a[1]) * a[2], Abs(a[1]))

RDiv(a, b) == RMul(a, RInv(b))

RLt(a, b) ==
    /\ ~IsNaN(a)
    /\ ~IsNaN(b)
    /\ IF a[2] = 0 /\ b[2] = 0 THEN a[1] < b[1]
       ELSE a[1] * b[2] < b[1] * a[2]

RLe(a, b) ==
    /\ ~IsNaN(a)
    /\ ~IsNaN(b)
    /\ IF a[2] = 0 /\ b[2] = 0 THEN a[1] <= b[1]
       ELSE a[1] * b[2] <= b[1] * a[2]

RGt(a, b) == RLt(b, a)

RGe(a, b) == RLe(b, a)

RMax(a, b) == IF RLe(a, b) THEN b ELSE a

RMin(a, b) == IF RLe(a, b) THEN a ELSE b

----------------------------------------------------------------------------
(* domain/eerr.py: variable_rent_threshold                                 *)

\* float(arriendo_porcentual or 0.0): None and 0 both become 0.0
FloatOrZero(p) == IF p = None \/ p = R(0) THEN R(0) ELSE p

\* the normalisation step: a rate above 1 is a raw percentage
NormalizaPorcentajeSinDividir(p) == p

NormalizaPorcentaje(p) == IF RGt(p, R(1)) THEN RDiv(p, R(100)) ELSE p

\* a version that lets a non-positive rent through
variable_rent_threshold_sin_guarda(m, p) ==
    LET porcentaje == FloatOrZero(p)
    IN  IF RLe(porcentaje, R(0)) THEN None
        ELSE LET umbral == RDiv(m, NormalizaPorcentaje(porcentaje))
             IN  IF ~IsFinite(umbral) THEN None ELSE umbral

variable_rent_threshold(m, p) ==
    IF RLe(m, R(0)) THEN None
    ELSE
      LET porcentaje == FloatOrZero(p)
      IN  IF RLe(porcentaje, R(0)) THEN None
          ELSE
            LET norm == NormalizaPorcentaje(porcentaje)
            IN  IF RGt(porcentaje, R(1)) /\ RLe(norm, R(0)) THEN None
                ELSE
                  LET umbral == RDiv(m, norm)
                  IN  IF ~IsFinite(umbral) \/ RLe(umbral, R(0)) THEN None
                      ELSE umbral

\* arguments the threshold function is exercised with
ThMinimos ==
    {R(-2), R(0), R(1), R(3), R(1000000), Frac(1, 2), Inf, NegInf, NaN}

ThPorcentajes ==
    {None, R(-1), R(0), Frac(1, 20), Frac(1, 4), R(1), R(5), R(25), Inf, NaN}

NoRow == [Sucursal |-> "-"]

NoSrc == [layout |-> "-"]

PipeIdle ==
    /\ src = NoSrc
    /\ ventas = <<>>
    /\ contrib = <<>>
    /\ eerrPre = <<>>
    /\ eerrFilled = <<>>
    /\ eerr = <<>>

BeIdle ==
    /\ beIn = NoRow
    /\ bePaso = 0
    /\ beRes = <<>>

NoOut == [estado |-> "unset"]

UfIdle ==
    /\ ufSrc = <<>>
    /\ ufMeses = {}
    /\ ufOut = NoOut

NoCall == [op |-> "-", code |-> "-"]

TmIdle ==
    /\ tmMods = <<>>
    /\ tmAudit = <<>>
    /\ tmLast = NoCall

SrIdle ==
    /\ srIn = NoRow
    /\ srOut = NoRow

StIdle ==
    /\ stRow = <<>>
    /\ stCostos = <<>>
    /\ stOut = NoRow

FwIdle ==
    /\ fwMtime = <<>>
    /\ fwTimestamps = <<>>
    /\ fwCache = <<>>
    /\ fwChanged = {}
    /\ fwFallidos = {}

BkIdle ==
    /\ bkDb = NoRow
    /\ bkFiles = <<>>
    /\ bkNow = 0
    /\ bkLockB = 0
    /\ bkLockR = 0
    /\ bkCall = <<>>
    /\ bkRes = <<>>

ScIdle ==
    /\ scStores = {}
    /\ scContracts = <<>>
    /\ scAudit = {}
    /\ scLast = NoCall

TbIdle ==
    /\ tbPaso = 0
    /\ beTabla = <<>>

ThInit ==
    /\ pc = "threshold"
    /\ TbIdle
    /\ ScIdle
    /\ BkIdle
    /\ FwIdle
    /\ StIdle
    /\ rowIn = NoRow
    /\ rowOut = NoRow
    /\ rentFila = NoRow
    /\ PipeIdle
    /\ UfIdle
    /\ TmIdle
    /\ SrIdle
    /\ BeIdle
    /\ thM \in ThMinimos
    /\ thP \in ThPorcentajes
    /\ thOut = Unset

ThCall ==
    /\ pc = "threshold"
    /\ thOut = Unset
    /\ thOut' = variable_rent_threshold(thM, thP)
    /\ UNCHANGED <<pc, thM, thP, rowVars, pipeVars, beVars, ufVars, tmVars, srVars, stVars, fwVars, bkVars, scVars, tbVars>>

ThNewArgs ==
    /\ pc = "threshold"
    /\ thOut # Unset
    /\ thM' \in ThMinimos
    /\ thP' \in ThPorcentajes
    /\ thOut' = Unset
    /\ UNCHANGED <<pc, rowVars, pipeVars, beVars, ufVars, tmVars, srVars, stVars, fwVars, bkVars, scVars, tbVars>>

ThNext == ThCall \/ ThNewArgs

SpecThreshold == ThInit /\ [][ThNext]_vars

----------------------------------------------------------------------------
\* C4: variable_rent_threshold returns None whenever the minimum rent is <= 0,
\* whenever the rate is <= 0 or missing, and whenever the quotient is not
\* finite; it never returns a value <= 0 (and always returns None or a
\* finite number, i.e. it never fails).
C4_NullOnInvalid ==
    (pc = "threshold" /\ thOut # Unset) =>
        /\ (RLe(thM, R(0)) => thOut = None)
        /\ ((thP = None \/ RLe(thP, R(0))) => thOut = None)
        /\ (~IsFinite(RDiv(thM, NormalizaPorcentaje(FloatOrZero(thP)))) => thOut = None)
        /\ (thOut # None => IsFinite(thOut) /\ RGt(thOut, R(0)))

C4_Witness ==
    /\ pc = "threshold"
    /\ thM = R(3)
    /\ thP = R(0)
    /\ thOut = None

\* C5: for a finite minimum rent m > 0 the threshold times the normalised rate
\* gives back m: the rate is p when 0 < p <= 1 and p / 100 when p > 1.
C5_QuotientByNormalizedRate ==
    (pc = "threshold" /\ thOut # Unset /\ IsFinite(thM) /\ RGt(thM, R(0))
        /\ thP # None /\ IsFinite(thP) /\ RGt(thP, R(0))) =>
        /\ thOut # None
        /\ (RLe(thP, R(1)) => RMul(thOut, thP) = thM)
        /\ (RGt(thP, R(1)) => RMul(thOut, thP) = RMul(R(100), thM))

C5_Witness ==
    /\ pc = "threshold"
    /\ thM = R(1000000)
    /\ thP = R(5)
    /\ thOut = R(20000000)

----------------------------------------------------------------------------
(* domain/eerr.py: build_eerr, the per-row computation (lines 472-566).    *)
(* A merged row carries the sales value, the left-joined contribution,     *)
(* staff, rent and banner-rate columns (NaN where the join found nothing), *)
(* the monthly UF average of its month and the network cost per store.     *)

FillNa(x, valor) == IF IsNaN(x) THEN valor ELSE x

\* fill_zero: every joined column defaults to 0, Arriendo_factor to 1
FillDefaults(f) ==
    [f EXCEPT
        !.Margen_pct = FillNa(@, R(0)),
        !.Costo_dotacion_fijo = FillNa(@, R(0)),
        !.Vendedores_comision = FillNa(@, R(0)),
        !.Tasa_comision_sumada = FillNa(@, R(0)),
        !.Tasa_total_ventas = FillNa(@, R(0)),
        !.Arriendo_vmm_uf = FillNa(@, R(0)),
        !.Arriendo_porcentual = FillNa(@, R(0)),
        !.Arriendo_fondo_promocion_pct = FillNa(@, R(0)),
        !.Arriendo_factor = FillNa(@, R(1)),
        !.Arriendo_GGCC = FillNa(@, R(0)),
        !.Total_otros_costos = FillNa(@, R(0)),
        !.Comision_medio_pago = FillNa(@, R(0))]

FactorAplicableSiempre(f) == f.Arriendo_factor

\* factor_aplicable = Arriendo_factor.where(month == 12, 1)
FactorAplicable(f) == IF f.Mes[2] = 12 THEN f.Arriendo_factor ELSE R(1)

ArriendoMinimoClp(f) ==
    RMul(RMul(f.Arriendo_vmm_uf, f.UF_promedio), FactorAplicable(f))

MontoPorcentual(f) == RMul(f.Ventas, f.Arriendo_porcentual)

ArriendoBaseSoloMinimo(monto, minimo) == minimo

\* arriendo_base = max(monto_porcentual, arriendo_minimo_clp)
ArriendoBase(monto, minimo) == RMax(monto, minimo)

\* Comisiones_variables: per-head pool only where headcount > 0 and sales > 0
ComisionesVariables(f) ==
    RAdd(IF RGt(f.Vendedores_comision, R(0)) /\ RGt(f.Ventas, R(0))
           THEN RMul(RDiv(f.Ventas, f.Vendedores_comision), f.Tasa_comision_sumada)
           ELSE R(0),
         RMul(f.Ventas, f.Tasa_total_ventas))

\* columnas_cero: the columns forced to 0 on rows with Ventas <= 0
Cerrar(cerrado, x) == IF cerrado THEN R(0) ELSE x

\* the metric columns of one computed row, f being the row after fill_zero
ComputeMetrics(f) ==
    LET margen_contribucion == RMul(f.Ventas, f.Margen_pct)
        costo_venta == RSub(f.Ventas, margen_contribucion)
        minimo == ArriendoMinimoClp(f)
        base == ArriendoBase(MontoPorcentual(f), minimo)
        variable == RMax(RSub(base, minimo), R(0))
        fijo == RSub(base, variable)
        fondo == RMul(RAdd(fijo, variable), f.Arriendo_fondo_promocion_pct)
        total == RAdd(RAdd(RAdd(fijo, variable), fondo), f.Arriendo_GGCC)
        otros == RMul(f.Ventas, f.Total_otros_costos)
        redes == f.Redes_por_tienda
        medio_pago == RMul(f.Ventas, f.Comision_medio_pago)
        comisiones == ComisionesVariables(f)
        costo_dotacion == RAdd(f.Costo_dotacion_fijo, comisiones)
        gasto == RAdd(RAdd(RAdd(RAdd(costo_dotacion, total), redes), medio_pago), otros)
        ebitda == RSub(margen_contribucion, gasto)
        margen_ebitda ==
            RMul(RDiv(IF f.Ventas # R(0) THEN ebitda ELSE R(0),
                      IF f.Ventas # R(0) THEN f.Ventas ELSE R(1)),
                 R(100))
        cerrado == RLe(f.Ventas, R(0))
    IN  [Venta |-> f.Ventas,
         Costo_de_venta |-> costo_venta,
         Contribucion |-> margen_contribucion,
         Margen_contribucion |-> RMul(f.Margen_pct, R(100)),
         Arriendo_fijo |-> Cerrar(cerrado, fijo),
         Arriendo_variable |-> Cerrar(cerrado, variable),
         Arriendo_fondo_promocion |-> Cerrar(cerrado, fondo),
         Arriendo_GGCC |-> Cerrar(cerrado, f.Arriendo_GGCC),
         Arriendo_total |-> Cerrar(cerrado, total),
         Remuneraciones_fijo |-> Cerrar(cerrado, f.Costo_dotacion_fijo),
         Remuneraciones_comisiones |-> Cerrar(cerrado, comisiones),
         Remuneraciones_total |-> Cerrar(cerrado, costo_dotacion),
         Redes_sistemas |-> Cerrar(cerrado, redes),
         Comision_medio_pago |-> Cerrar(cerrado, medio_pago),
         Otros_costos |-> Cerrar(cerrado, otros),
         Gastos_operacionales |-> Cerrar(cerrado, gasto),
         EBITDA |-> Cerrar(cerrado, ebitda),
         Margen_EBITDA |-> margen_ebitda]

\* one output row: identity columns plus the metrics
EerrRow(raw) ==
    [Sucursal |-> raw.Sucursal,
     Banner |-> raw.Banner,
     Mes |-> raw.Mes,
     Escenario |-> raw.Escenario,
     m |-> ComputeMetrics(FillDefaults(raw))]

\* the merged rows the row computation is exercised with
RowVentas == {R(-2), R(0), R(4), R(200)}

RowMargenes == {NaN, Frac(1, 4), Frac(1, 2)}

\* staff join: no staff row, or a profile (fijo, vendedores, tasa_sumada, tasa_total)
RowStaff ==
    {<<NaN, NaN, NaN, NaN>>,
     <<R(3), R(0), R(0), R(0)>>,
     <<R(3), R(2), Frac(1, 10), Frac(1, 100)>>}

\* the store's row of the Arriendos sheet: none, or its five cells, the
\* 'Factor Diciembre' cell possibly empty (NaN)
RowRentFilas ==
    {NoRow}
    \cup {[Sucursal |-> "A", VMM_UF |-> vmm, Variable |-> var,
           Fondo_promocion |-> fondo, Factor_Diciembre |-> factor, GGCC |-> ggcc] :
            vmm \in {R(0), R(2)}, var \in {R(0), Frac(1, 10)},
            fondo \in {R(0), Frac(1, 2)}, factor \in {NaN, R(1), R(2)},
            ggcc \in {R(0), R(1)}}

\* load_rent: _read_excel(...).fillna(0), then the renamed columns
load_rent(fila) ==
    [Sucursal |-> fila.Sucursal,
     Arriendo_vmm_uf |-> FillNa(fila.VMM_UF, R(0)),
     Arriendo_porcentual |-> FillNa(fila.Variable, R(0)),
     Arriendo_fondo_promocion_pct |-> FillNa(fila.Fondo_promocion, R(0)),
     Arriendo_factor |-> FillNa(fila.Factor_Diciembre, R(0)),
     Arriendo_GGCC |-> FillNa(fila.GGCC, R(0))]

\* merge(arriendo, how="left", on="Sucursal"): the rent columns of the store,
\* NaN when the sheet has no row for it
RentJoin(fila) ==
    IF fila = NoRow THEN <<NaN, NaN, NaN, NaN, NaN>>
    ELSE LET a == load_rent(fila)
         IN  <<a.Arriendo_vmm_uf, a.Arriendo_porcentual,
               a.Arriendo_fondo_promocion_pct, a.Arriendo_factor, a.Arriendo_GGCC>>

RowOtros == {NaN, Frac(1, 20)}

RowMedioPago == {NaN, Frac(1, 50)}

RowUF == {R(1), R(3)}

RowMeses == {<<2025, 11>>, <<2025, 12>>}

RowRedes == {R(0), R(1)}

MergedRow(v, mg, st, rt, ot, mp, uf, mes, red) ==
    [Sucursal |-> "A", Banner |-> "X", Mes |-> mes, Escenario |-> "Real",
     Ventas |-> v, Margen_pct |-> mg,
     Costo_dotacion_fijo |-> st[1], Vendedores_comision |-> st[2],
     Tasa_comision_sumada |-> st[3], Tasa_total_ventas |-> st[4],
     Arriendo_vmm_uf |-> rt[1], Arriendo_porcentual |-> rt[2],
     Arriendo_fondo_promocion_pct |-> rt[3], Arriendo_factor |-> rt[4],
     Arriendo_GGCC |-> rt[5],
     Total_otros_costos |-> ot, Comision_medio_pago |-> mp,
     UF_promedio |-> uf, Redes_por_tienda |-> red]

RowInit ==
    /\ pc = "row"
    /\ TbIdle
    /\ ScIdle
    /\ BkIdle
    /\ FwIdle
    /\ StIdle
    /\ thM = Unset
    /\ thP = Unset
    /\ thOut = Unset
    /\ rentFila \in RowRentFilas
    /\ \E v \in RowVentas, mg \in RowMargenes, st \in RowStaff,
          ot \in RowOtros, mp \in RowMedioPago, uf \in RowUF, mes \in RowMeses,
          red \in RowRedes :
            rowIn = MergedRow(v, mg, st, RentJoin(rentFila), ot, mp, uf, mes, red)
    /\ rowOut = NoRow
    /\ PipeIdle
    /\ BeIdle
    /\ UfIdle
    /\ TmIdle
    /\ SrIdle

RowCompute ==
    /\ pc = "row"
    /\ rowOut = NoRow
    /\ rowOut' = EerrRow(rowIn)
    /\ UNCHANGED <<pc, thVars, rowIn, rentFila, pipeVars, beVars, ufVars, tmVars, srVars, stVars, fwVars, bkVars, scVars, tbVars>>

RowNext == RowCompute

SpecRow == RowInit /\ [][RowNext]_vars

\* the inputs of the computed row, as the claims name them
RowDone == pc = "row" /\ rowOut # NoRow

RowMinimumRent ==
    RMul(RMul(FillNa(rowIn.Arriendo_vmm_uf, R(0)), rowIn.UF_promedio),
         IF rowIn.Mes[2] = 12 THEN FillNa(rowIn.Arriendo_factor, R(1)) ELSE R(1))

RowPercentRent == RMul(rowIn.Ventas, FillNa(rowIn.Arriendo_porcentual, R(0)))

RowRentSum == RAdd(rowOut.m.Arriendo_fijo, rowOut.m.Arriendo_variable)

\* C1 (as stated): in every computed row, Arriendo_fijo + Arriendo_variable
\* equals max(minimum rent, Ventas x Arriendo_porcentual).
C1_Original ==
    RowDone => RowRentSum = RMax(RowMinimumRent, RowPercentRent)

\* C1 (amended): the reconciliation holds in every computed row with
\* Venta > 0; in a row with Venta <= 0 both rent components are 0.
C1_RentReconciles ==
    RowDone =>
        /\ (RGt(rowIn.Ventas, R(0)) =>
                RowRentSum = RMax(RowMinimumRent, RowPercentRent))
        /\ (RLe(rowIn.Ventas, R(0)) =>
                rowOut.m.Arriendo_fijo = R(0) /\ rowOut.m.Arriendo_variable = R(0))

C1_Witness ==
    /\ RowDone
    /\ rowIn.Ventas = R(200)
    /\ rowIn.Mes[2] = 12
    /\ rowIn.Arriendo_factor = R(2)
    /\ RGt(RowPercentRent, RowMinimumRent)
    /\ RGt(RowMinimumRent, R(0))
    /\ RowRentSum = RowPercentRent

\* C2: in every row with Venta <= 0, every cost field (cost of sales, rent
\* components and total, staffing components and total, other costs, network
\* cost, payment commission, operating expense) and EBITDA are exactly 0.
C2_ZeroSalesAllZero ==
    (RowDone /\ RLe(rowOut.m.Venta, R(0))) =>
        /\ rowOut.m.Costo_de_venta = R(0)
        /\ rowOut.m.Arriendo_fijo = R(0)
        /\ rowOut.m.Arriendo_variable = R(0)
        /\ rowOut.m.Arriendo_fondo_promocion = R(0)
        /\ rowOut.m.Arriendo_GGCC = R(0)
        /\ rowOut.m.Arriendo_total = R(0)
        /\ rowOut.m.Remuneraciones_fijo = R(0)
        /\ rowOut.m.Remuneraciones_comisiones = R(0)
        /\ rowOut.m.Remuneraciones_total = R(0)
        /\ rowOut.m.Otros_costos = R(0)
        /\ rowOut.m.Redes_sistemas = R(0)
        /\ rowOut.m.Comision_medio_pago = R(0)
        /\ rowOut.m.Gastos_operacionales = R(0)
        /\ rowOut.m.EBITDA = R(0)

----------------------------------------------------------------------------
(* config/__init__.py and the workbook D1_Venta y Contribucion.xlsx.       *)
(* A sheet has one line per store and one column per month; an empty cell  *)
(* is NaN.                                                                 *)

REAL_SCENARIO == "Real"

BUDGET_SCENARIO == "Presupuesto"

Stores == <<"A", "B">>

Columns == <<<<2024, 12>>, <<2025, 10>>, <<2025, 12>>>>

AllCells ==
    {<<Stores[i], Columns[j]>> : i \in 1..Len(Stores), j \in 1..Len(Columns)}

\* cells that may hold a figure: every month of store A, the 2025 months of B
FreeCells == {c \in AllCells : c[1] = "A" \/ c[2][1] = 2025}

FreeCellsContrib == {c \in AllCells : c[1] = "A"}

\* the figure written in a non-empty cell (sales in thousands; margin fraction)
VentaMilesDe(e, c) ==
    IF e = REAL_SCENARIO
      THEN (IF c[1] = "B" THEN (IF c[2][2] = 12 THEN R(-1) ELSE R(6))
            ELSE IF c[2] = <<2024, 12>> THEN R(0)
            ELSE IF c[2] = <<2025, 10>> THEN R(4) ELSE R(40))
      ELSE (IF c[1] = "B" THEN R(2)
            ELSE IF c[2] = <<2024, 12>> THEN R(3)
            ELSE IF c[2] = <<2025, 10>> THEN R(5) ELSE R(30))

MargenDe(e, c) == IF e = REAL_SCENARIO THEN Frac(1, 4) ELSE Frac(1, 2)

SheetsVenta(e) ==
    {[c \in AllCells |-> IF c \in S THEN VentaMilesDe(e, c) ELSE NaN] :
        S \in SUBSET FreeCells}

SheetsContrib(e) ==
    {[c \in AllCells |-> IF c \in S THEN MargenDe(e, c) ELSE NaN] :
        S \in SUBSET FreeCellsContrib}

EmptySheet == [c \in AllCells |-> NaN]

\* the store-level and banner-level tables joined by build_eerr
Diccionario(s) == IF s = "A" THEN "X" ELSE "Y"

\* load_staff_costs(): (fijo, vendedores, tasa_sumada, tasa_total) or no row
StaffDe(s) ==
    IF s = "A" THEN <<R(3000), R(2), Frac(1, 10), Frac(1, 100)>>
    ELSE <<NaN, NaN, NaN, NaN>>

\* load_rent(): (vmm_uf, porcentual, fondo, factor, GGCC) or no row
RentDe(s) ==
    IF s = "A" THEN <<R(2), Frac(1, 10), Frac(1, 2), R(2), R(1000)>>
    ELSE <<NaN, NaN, NaN, NaN, NaN>>

OtrosDe(b) == IF b = "X" THEN Frac(1, 20) ELSE NaN

MedioPagoDe(b) == IF b = "X" THEN Frac(1, 50) ELSE NaN

\* load_network_costs(): gasto_mensual * pct_retail
NetworkTotal == RMul(R(4000), Frac(1, 2))

\* uf_promedio_mensual of the month of a row
UFPromedio(mes) ==
    IF mes[1] = 2024 THEN R(1000)
    ELSE IF mes[2] < 12 THEN R(2000) ELSE R(3000)

----------------------------------------------------------------------------
(* io/excel.py: _tidy_sales_sheet, load_sales, load_contribution           *)

\* melt() walks the month columns, and inside a column the store lines
MeltOrder ==
    [k \in 1..(Len(Columns) * Len(Stores)) |->
        <<Stores[((k - 1) % Len(Stores)) + 1],
          Columns[((k - 1) \div Len(Stores)) + 1]>>]

\* melt, dropna on the value, assign the scenario
tidy_sales_sheet(df, scenario) ==
    LET celdas == SelectSeq(MeltOrder, LAMBDA c : ~IsNaN(df[c]))
    IN  [i \in 1..Len(celdas) |->
            [Sucursal |-> celdas[i][1], Mes |-> celdas[i][2],
             Escenario |-> scenario, valor |-> df[celdas[i]]]]

Clave(r) == <<r.Sucursal, r.Mes>>

Claves(t) == {Clave(t[i]) : i \in 1..Len(t)}

DedupSinFiltro(real, budget) == real \o budget

\* a filter that forgets mask_presupuesto
DedupQuitaReales(real, budget) ==
    SelectSeq(real \o budget, LAMBDA r : Clave(r) \notin Claves(real))

\* concat([real, budget]) minus the budget rows whose (store, month) is real
DedupPresupuesto(real, budget) ==
    LET todo == real \o budget
    IN  IF real # <<>>
          THEN SelectSeq(todo,
                 LAMBDA r : ~(r.Escenario = BUDGET_SCENARIO /\ Clave(r) \in Claves(real)))
          ELSE todo

LoadSheets(layout, real, budget) ==
    IF layout = "split"
      THEN DedupPresupuesto(tidy_sales_sheet(real, REAL_SCENARIO),
                            tidy_sales_sheet(budget, BUDGET_SCENARIO))
      ELSE tidy_sales_sheet(real, REAL_SCENARIO)

load_sales(s) ==
    LET t == LoadSheets(s.layout, s.realVenta, s.pptoVenta)
    IN  [i \in 1..Len(t) |->
            [Sucursal |-> t[i].Sucursal, Mes |-> t[i].Mes,
             Escenario |-> t[i].Escenario,
             Ventas |-> RMul(t[i].valor, R(1000))]]

load_contribution(s) ==
    LET t == LoadSheets(s.layout, s.realContrib, s.pptoContrib)
    IN  [i \in 1..Len(t) |->
            [Sucursal |-> t[i].Sucursal, Mes |-> t[i].Mes,
             Escenario |-> t[i].Escenario,
             Margen_pct |-> t[i].valor]]

----------------------------------------------------------------------------
(* domain/eerr.py: build_eerr, the joins (lines 457-470)                   *)

\* stores_with_sales / num_stores / network_cost_per_store
NetworkCostPerStore(vt) ==
    LET stores_with_sales == {vt[i].Sucursal : i \in 1..Len(vt)}
        num_stores == IF stores_with_sales # {} THEN Cardinality(stores_with_sales) ELSE 1
    IN  RDiv(NetworkTotal, R(num_stores))

\* left join of the contribution on (Sucursal, Mes, Escenario)
MargenJoin(v, ct) ==
    LET hits == {i \in 1..Len(ct) :
                    /\ ct[i].Sucursal = v.Sucursal
                    /\ ct[i].Mes = v.Mes
                    /\ ct[i].Escenario = v.Escenario}
    IN  IF hits = {} THEN NaN ELSE ct[CHOOSE i \in hits : TRUE].Margen_pct

MergeRow(v, ct, red) ==
    LET banner == Diccionario(v.Sucursal)
        st == StaffDe(v.Sucursal)
        rt == RentDe(v.Sucursal)
    IN  [Sucursal |-> v.Sucursal, Banner |-> banner, Mes |-> v.Mes,
         Escenario |-> v.Escenario,
         Ventas |-> v.Ventas, Margen_pct |-> MargenJoin(v, ct),
         Costo_dotacion_fijo |-> st[1], Vendedores_comision |-> st[2],
         Tasa_comision_sumada |-> st[3], Tasa_total_ventas |-> st[4],
         Arriendo_vmm_uf |-> rt[1], Arriendo_porcentual |-> rt[2],
         Arriendo_fondo_promocion_pct |-> rt[3], Arriendo_factor |-> rt[4],
         Arriendo_GGCC |-> rt[5],
         Total_otros_costos |-> OtrosDe(banner),
         Comision_medio_pago |-> MedioPagoDe(banner),
         UF_promedio |-> UFPromedio(v.Mes), Redes_por_tienda |-> red]

\* eerr as it stands at line 607, before gap-filling
ComputeEerr(vt, ct) ==
    [i \in 1..Len(vt) |-> EerrRow(MergeRow(vt[i], ct, NetworkCostPerStore(vt)))]

----------------------------------------------------------------------------
(* domain/eerr.py: _append_missing_months (lines 374-444)                  *)

MetricColumns ==
    {"Venta", "Costo_de_venta", "Contribucion", "Margen_contribucion",
     "Arriendo_fijo", "Arriendo_variable", "Arriendo_fondo_promocion",
     "Arriendo_GGCC", "Arriendo_total", "Remuneraciones_fijo",
     "Remuneraciones_comisiones", "Remuneraciones_total", "Redes_sistemas",
     "Comision_medio_pago", "Otros_costos", "Gastos_operacionales", "EBITDA",
     "Margen_EBITDA"}

NaNMetrics == [c \in MetricColumns |-> NaN]

StoreOrd(s) == CHOOSE i \in 1..Len(Stores) : Stores[i] = s

\* "Presupuesto" sorts before "Real"
EscenarioOrd(e) == IF e = BUDGET_SCENARIO THEN 1 ELSE 2

\* key_columns: (Sucursal, Escenario, _year, _month)
KeyOf(r) == <<r.Sucursal, r.Escenario, r.Mes[1], r.Mes[2]>>

\* grouping_columns: (Sucursal, Escenario, _year)
GroupOf(r) == <<r.Sucursal, r.Escenario, r.Mes[1]>>

GroupLe(x, y) ==
    \/ StoreOrd(x[1]) < StoreOrd(y[1])
    \/ /\ x[1] = y[1]
       /\ \/ EscenarioOrd(x[2]) < EscenarioOrd(y[2])
          \/ x[2] = y[2] /\ x[3] <= y[3]

\* groupby iterates its groups in sorted key order
RECURSIVE SortGroups(_)
SortGroups(G) ==
    IF G = {} THEN <<>>
    ELSE LET g == CHOOSE x \in G : \A y \in G : GroupLe(x, y)
         IN  <<g>> \o SortGroups(G \ {g})

MinOf(S) == CHOOSE x \in S : \A y \in S : x <= y

MaxOf(S) == CHOOSE x \in S : \A y \in S : y <= x

\* missing_between + missing_after of one group, ascending
MissingMonthsDesdeEnero(months_present) ==
    SelectSeq([m \in 1..12 |-> m], LAMBDA mes : mes \notin months_present)

MissingMonths(months_present) ==
    LET min_month == MinOf(months_present)
        max_month == MaxOf(months_present)
    IN  SelectSeq([m \in 1..12 |-> m],
          LAMBDA mes :
            \/ mes \in min_month..(max_month - 1) /\ mes \notin months_present
            \/ mes \in (max_month + 1)..12)

\* the rows of one group, in table order
GroupRows(work, g) == SelectSeq(work, LAMBDA r : GroupOf(r) = g)

\* registro: the filler rows of group g for the given months
FillerRows(work, g, meses) ==
    LET grupo == GroupRows(work, g)
        banner == grupo[1].Banner
    IN  [i \in 1..Len(meses) |->
            [Sucursal |-> g[1], Banner |-> banner, Mes |-> <<g[3], meses[i]>>,
             Escenario |-> g[2], m |-> NaNMetrics]]

MonthsPresent(work, g) ==
    LET grupo == GroupRows(work, g)
    IN  {grupo[i].Mes[2] : i \in 1..Len(grupo)}

\* the candidate fillers of one group
GroupCandidates(work, g) ==
    FillerRows(work, g, MissingMonths(MonthsPresent(work, g)))

RECURSIVE AllCandidates(_, _)
AllCandidates(work, gs) ==
    IF gs = <<>> THEN <<>>
    ELSE GroupCandidates(work, Head(gs)) \o AllCandidates(work, Tail(gs))

\* the loop body: skip a key already in existing, else append and record it
RECURSIVE MissingRows(_, _, _)
MissingRows(cands, existing, acc) ==
    IF cands = <<>> THEN acc
    ELSE LET registro == Head(cands)
         IN  IF KeyOf(registro) \in existing
               THEN MissingRows(Tail(cands), existing, acc)
               ELSE MissingRows(Tail(cands), existing \cup {KeyOf(registro)},
                                Append(acc, registro))

\* a gap-filler that walks range(min_month, 13) and never consults
\* months_present or existing
RECURSIVE CandidatesDesdeMin(_, _)
CandidatesDesdeMin(work, gs) ==
    IF gs = <<>> THEN <<>>
    ELSE LET min_month == MinOf(MonthsPresent(work, Head(gs)))
         IN  FillerRows(work, Head(gs),
                        SelectSeq([m \in 1..12 |-> m], LAMBDA mes : mes >= min_month))
             \o CandidatesDesdeMin(work, Tail(gs))

append_missing_months_sin_existing(work) ==
    IF work = <<>> THEN work
    ELSE work \o CandidatesDesdeMin(work,
                    SortGroups({GroupOf(work[i]) : i \in 1..Len(work)}))

append_missing_months(work) ==
    IF work = <<>> THEN work
    ELSE LET existing == {KeyOf(work[i]) : i \in 1..Len(work)}
             gs == SortGroups({GroupOf(work[i]) : i \in 1..Len(work)})
         IN  work \o MissingRows(AllCandidates(work, gs), existing, <<>>)

----------------------------------------------------------------------------
(* domain/eerr.py: build_eerr, scenario reconciliation and ordering        *)
(* (lines 610-624)                                                         *)

\* Es_presupuesto = Escenario.eq(BUDGET_SCENARIO)
Es_presupuesto(r) == r.Escenario = BUDGET_SCENARIO

\* metric_na: every metric column is NaN
MetricNa(r) == \A c \in MetricColumns : IsNaN(r.m[c])

FillerMaskSinClave(t, r) == ~Es_presupuesto(r) /\ MetricNa(r)

\* filler_mask = es_real & metric_na & claves.isin(claves_presupuesto)
FillerMask(t, r) ==
    LET claves_presupuesto ==
            {Clave(t[i]) : i \in {j \in 1..Len(t) : Es_presupuesto(t[j])}}
    IN  /\ ~Es_presupuesto(r)
        /\ MetricNa(r)
        /\ Clave(r) \in claves_presupuesto

DropFillers(t) == SelectSeq(t, LAMBDA r : ~FillerMask(t, r))

MesIdx(mes) == mes[1] * 12 + mes[2]

SortLe(a, b) ==
    \/ StoreOrd(a.Sucursal) < StoreOrd(b.Sucursal)
    \/ a.Sucursal = b.Sucursal /\ MesIdx(a.Mes) <= MesIdx(b.Mes)

\* stable insertion: after every row that is not greater
RECURSIVE InsertSorted(_, _)
InsertSorted(t, r) ==
    IF t = <<>> THEN <<r>>
    ELSE IF SortLe(Head(t), r) THEN <<Head(t)>> \o InsertSorted(Tail(t), r)
    ELSE <<r>> \o t

\* sort_values(["Sucursal", "Mes"]), a stable lexsort
RECURSIVE SortValues(_, _)
SortValues(t, acc) ==
    IF t = <<>> THEN acc ELSE SortValues(Tail(t), InsertSorted(acc, Head(t)))

----------------------------------------------------------------------------
(* build_eerr as a sequence of steps                                       *)

Layouts == {"split", "single"}

PipeInit ==
    /\ pc = "load_sales"
    /\ TbIdle
    /\ ScIdle
    /\ BkIdle
    /\ FwIdle
    /\ StIdle
    /\ thM = Unset
    /\ thP = Unset
    /\ thOut = Unset
    /\ rowIn = NoRow
    /\ rowOut = NoRow
    /\ rentFila = NoRow
    /\ \E ly \in Layouts :
         \E rv \in SheetsVenta(REAL_SCENARIO), rc \in SheetsContrib(REAL_SCENARIO) :
           \E pv \in (IF ly = "split" THEN SheetsVenta(BUDGET_SCENARIO) ELSE {EmptySheet}),
              pk \in (IF ly = "split" THEN SheetsContrib(BUDGET_SCENARIO) ELSE {EmptySheet}) :
                src = [layout |-> ly, realVenta |-> rv, pptoVenta |-> pv,
                       realContrib |-> rc, pptoContrib |-> pk]
    /\ ventas = <<>>
    /\ contrib = <<>>
    /\ eerrPre = <<>>
    /\ eerrFilled = <<>>
    /\ eerr = <<>>
    /\ BeIdle
    /\ UfIdle
    /\ TmIdle
    /\ SrIdle

LoadSales ==
    /\ pc = "load_sales"
    /\ ventas' = load_sales(src)
    /\ pc' = "load_contribution"
    /\ UNCHANGED <<thVars, rowVars, beVars, src, contrib, eerrPre, eerrFilled, eerr, ufVars, tmVars, srVars, stVars, fwVars, bkVars, scVars, tbVars>>

LoadContribution ==
    /\ pc = "load_contribution"
    /\ contrib' = load_contribution(src)
    /\ pc' = "compute"
    /\ UNCHANGED <<thVars, rowVars, beVars, src, ventas, eerrPre, eerrFilled, eerr, ufVars, tmVars, srVars, stVars, fwVars, bkVars, scVars, tbVars>>

Compute ==
    /\ pc = "compute"
    /\ eerrPre' = ComputeEerr(ventas, contrib)
    /\ pc' = "gaps"
    /\ UNCHANGED <<thVars, rowVars, beVars, src, ventas, contrib, eerrFilled, eerr, ufVars, tmVars, srVars, stVars, fwVars, bkVars, scVars, tbVars>>

AppendMissingMonths ==
    /\ pc = "gaps"
    /\ eerrFilled' = append_missing_months(eerrPre)
    /\ pc' = "filter"
    /\ UNCHANGED <<thVars, rowVars, beVars, src, ventas, contrib, eerrPre, eerr, ufVars, tmVars, srVars, stVars, fwVars, bkVars, scVars, tbVars>>

FilterAndSort ==
    /\ pc = "filter"
    /\ eerr' = SortValues(DropFillers(eerrFilled), <<>>)
    /\ pc' = "done"
    /\ UNCHANGED <<thVars, rowVars, beVars, src, ventas, contrib, eerrPre, eerrFilled, ufVars, tmVars, srVars, stVars, fwVars, bkVars, scVars, tbVars>>

Next ==
    \/ LoadSales
    \/ LoadContribution
    \/ Compute
    \/ AppendMissingMonths
    \/ FilterAndSort

Spec == PipeInit /\ [][Next]_vars

----------------------------------------------------------------------------
(* Properties of the loaders and of build_eerr                             *)

Rows(t) == {t[i] : i \in 1..Len(t)}

Loaded == pc \in {"compute", "gaps", "filter", "done"}

Filled == pc \in {"filter", "done"}

\* the rows _append_missing_months added behind its input
Added == {eerrFilled[i] : i \in (Len(eerrPre) + 1)..Len(eerrFilled)}

\* C6: gap-filling never adds a row whose (store, scenario, year, month) key
\* equals the key of an input row or of another added row.
C6_NoDuplicateKeys ==
    Filled =>
        \A i \in (Len(eerrPre) + 1)..Len(eerrFilled) :
            \A j \in 1..Len(eerrFilled) :
                i # j => KeyOf(eerrFilled[i]) # KeyOf(eerrFilled[j])

C6_Witness ==
    /\ pc = "filter"
    /\ Added # {}
    /\ \E r1, r2 \in Rows(eerrPre) :
          /\ GroupOf(r1) = GroupOf(r2)
          /\ r1.Mes[2] = 10
          /\ r2.Mes[2] = 12
    /\ \E r \in Added : r.Sucursal = "B"

\* C7: per (store, scenario, year) group exactly the months without a row
\* that lie after the group's first observed month (up to December) are
\* inserted; inserted rows have every metric NaN and carry the group's
\* store, banner and scenario; the input rows are returned unchanged.
C7_ExactlyTheGaps ==
    Filled =>
        /\ Len(eerrFilled) >= Len(eerrPre)
        /\ SubSeq(eerrFilled, 1, Len(eerrPre)) = eerrPre
        /\ \A r \in Added :
              /\ \A c \in MetricColumns : r.m[c] = NaN
              /\ \E q \in Rows(eerrPre) : GroupOf(q) = GroupOf(r)
              /\ \A q \in Rows(eerrPre) : GroupOf(q) = GroupOf(r) => q.Banner = r.Banner
        /\ \A q \in Rows(eerrPre) :
              LET presentes == {x.Mes[2] : x \in {y \in Rows(eerrPre) : GroupOf(y) = GroupOf(q)}}
                  primero == CHOOSE x \in presentes : \A y \in presentes : x <= y
              IN  {r.Mes[2] : r \in {y \in Added : GroupOf(y) = GroupOf(q)}}
                    = {mes \in 1..12 : mes > primero /\ mes \notin presentes}

C7_Witness ==
    /\ pc = "filter"
    /\ \E q1, q2 \in Rows(eerrPre) :
          /\ q1.Sucursal = "A"
          /\ GroupOf(q1) = GroupOf(q2)
          /\ q1.Mes = <<2025, 10>>
          /\ q2.Mes = <<2025, 12>>
          /\ \E r \in Added : GroupOf(r) = GroupOf(q1) /\ r.Mes = <<2025, 11>>
    /\ \E q \in Rows(eerrPre) :
          /\ q.Mes = <<2025, 12>>
          /\ \A r \in Added : GroupOf(r) # GroupOf(q)

\* a Real filler of table t whose (store, month) is also a Budget key of t
RealFillerOnBudgetKey(t, r) ==
    /\ r.Escenario = REAL_SCENARIO
    /\ \A c \in MetricColumns : r.m[c] = NaN
    /\ \E b \in Rows(t) :
          b.Escenario = BUDGET_SCENARIO /\ b.Sucursal = r.Sucursal /\ b.Mes = r.Mes

\* C8: the output holds no Real filler whose (store, month) is also the key of
\* a Budget row, and the filter drops no other row.
C8_RealFillersDropped ==
    pc = "done" =>
        /\ \A r \in Rows(eerr) : ~RealFillerOnBudgetKey(eerr, r)
        /\ Rows(eerr) = {r \in Rows(eerrFilled) : ~RealFillerOnBudgetKey(eerrFilled, r)}
        /\ Len(eerr) = Cardinality({i \in 1..Len(eerrFilled) :
                                        ~RealFillerOnBudgetKey(eerrFilled, eerrFilled[i])})

C8_Witness ==
    /\ pc = "done"
    /\ Len(eerr) < Len(eerrFilled)
    /\ \E r \in Rows(eerr) :
          r.Escenario = REAL_SCENARIO /\ (\A c \in MetricColumns : r.m[c] = NaN)

\* C9 for one loaded table t read from the sheets real / budget
RealWins(t, real) ==
    /\ \A b, r \in Rows(t) :
          ~(/\ b.Escenario = BUDGET_SCENARIO
            /\ r.Escenario = REAL_SCENARIO
            /\ b.Sucursal = r.Sucursal
            /\ b.Mes = r.Mes)
    /\ \A c \in AllCells :
          real[c] # NaN =>
              \E r \in Rows(t) :
                  r.Escenario = REAL_SCENARIO /\ r.Sucursal = c[1] /\ r.Mes = c[2]

\* C9: the tables returned by load_sales and load_contribution hold no Budget
\* row whose (store, month) is the key of a Real row, and keep every Real row.
C9_RealPrecedenceUpstream ==
    Loaded => RealWins(ventas, src.realVenta) /\ RealWins(contrib, src.realContrib)

C9_Witness ==
    /\ pc = "compute"
    /\ src.layout = "split"
    /\ \E c \in AllCells :
          /\ src.realVenta[c] # NaN /\ src.pptoVenta[c] # NaN
          /\ src.realContrib[c] # NaN /\ src.pptoContrib[c] # NaN
    /\ \E r \in Rows(ventas) : r.Escenario = BUDGET_SCENARIO
    /\ \E r \in Rows(contrib) : r.Escenario = BUDGET_SCENARIO

\* cells where the Real and the Budget sales sheet both carry a figure
BothScenarios ==
    {c \in AllCells :
        src.layout = "split" /\ src.realVenta[c] # NaN /\ src.pptoVenta[c] # NaN}

\* C10 (as stated): where Real and Budget sales both carry data for a store
\* and month, the EERR holds both rows, the Budget row with its figures.
C10_Original ==
    pc = "done" =>
        \A c \in BothScenarios :
            /\ \E r \in Rows(eerr) :
                  r.Escenario = REAL_SCENARIO /\ r.Sucursal = c[1] /\ r.Mes = c[2]
            /\ \E b \in Rows(eerr) :
                  /\ b.Escenario = BUDGET_SCENARIO /\ b.Sucursal = c[1] /\ b.Mes = c[2]
                  /\ b.m.Venta = RMul(src.pptoVenta[c], R(1000))

\* C10 (amended): there the EERR holds the Real row with the Real figures and
\* no Budget row carrying data; a Budget row at that key is an all-NaN filler.
C10_BudgetDeduplicated ==
    pc = "done" =>
        \A c \in BothScenarios :
            /\ \E r \in Rows(eerr) :
                  /\ r.Escenario = REAL_SCENARIO /\ r.Sucursal = c[1] /\ r.Mes = c[2]
                  /\ r.m.Venta = RMul(src.realVenta[c], R(1000))
            /\ \A b \in Rows(eerr) :
                  (b.Escenario = BUDGET_SCENARIO /\ b.Sucursal = c[1] /\ b.Mes = c[2])
                      => \A col \in MetricColumns : b.m[col] = NaN

C10_Witness ==
    /\ pc = "done"
    /\ <<"A", <<2025, 10>>>> \in BothScenarios
    /\ \E r \in Rows(eerr) :
          /\ r.Escenario = REAL_SCENARIO /\ r.Sucursal = "A" /\ r.Mes = <<2025, 10>>
          /\ r.m.Venta = R(4000)
    /\ \E b \in Rows(eerr) :
          b.Escenario = BUDGET_SCENARIO /\ b.Sucursal = "A" /\ b.m.Venta = R(30000)

----------------------------------------------------------------------------
(* domain/eerr.py: build_breakeven_table_full_range (lines 235-371),       *)
(* the loop over the margin grid for one row of the store base.            *)

\* grid steps of the model: margen_paso = 100 / GridSteps percent
GridSteps == 4

\* the relative tolerance 1e-9 of the regime checks, as 1 / TolDen
TolDen == 1000000000

\* a <= u * (1 + 1e-9), u being a positive threshold or +inf
LeTol(a, u) ==
    IF u = Inf THEN TRUE
    ELSE a[1] * u[2] - u[1] * a[2] <= (u[1] * a[2]) \div TolDen

\* a >= u * (1 - 1e-9)
GeTol(a, u) ==
    IF u = Inf THEN FALSE
    ELSE u[1] * a[2] - a[1] * u[2] <= (u[1] * a[2]) \div TolDen

\* es_diciembre of build_store_base: the latest sales month is a December
EsDiciembre(in) == in.mes_referencia # 0 /\ in.mes_referencia = 12

BeFactorAplicadoSinBandera(in) ==
    IF EsDiciembre(in) THEN in.Arriendo_factor ELSE R(1)

\* factor_aplicado
BeFactorAplicado(in) ==
    IF in.usar_factor_diciembre /\ EsDiciembre(in) THEN in.Arriendo_factor ELSE R(1)

BeArriendoMinimo(in) ==
    RMul(RMul(in.Arriendo_vmm_uf, in.uf_referencia), BeFactorAplicado(in))

\* umbral_variable_actual: the threshold, +inf when there is none
BeUmbral(in) ==
    LET u == variable_rent_threshold(BeArriendoMinimo(in), in.Arriendo_porcentual)
    IN  IF u = None THEN Inf ELSE u

\* Tasa_comision_vendedores
TasaComisionVendedores(in) ==
    IF RGt(in.Vendedores_comision, R(0))
      THEN RDiv(in.Tasa_comision_sumada, in.Vendedores_comision)
      ELSE R(0)

\* Tasa_variable_total
TasaVariableTotal(in) ==
    RAdd(RAdd(RAdd(TasaComisionVendedores(in), in.Tasa_total_ventas),
              in.Total_otros_costos),
         in.Comision_medio_pago)

\* fin_paso = int(100.0 / margen_paso)
FinPaso(in) == LET q == RDiv(R(100), in.margen_paso) IN q[1] \div q[2]

MargenDecimal(in, paso) == RDiv(RMul(R(paso), in.margen_paso), R(100))

\* Caso 1 with the regime test turned round
VentaCasoMinimoUmbralInvertido(in, margen_decimal) ==
    LET denom_minimo == RSub(margen_decimal, TasaVariableTotal(in))
        numerador_minimo ==
            RAdd(RAdd(RAdd(in.Costo_dotacion_fijo,
                           RMul(BeArriendoMinimo(in),
                                RAdd(R(1), in.Arriendo_fondo_promocion_pct))),
                      in.Arriendo_GGCC),
                 in.Redes_sistemas)
        venta_posible == RDiv(numerador_minimo, denom_minimo)
    IN  IF RGt(denom_minimo, R(0))
             /\ (in.Arriendo_porcentual = R(0) \/ GeTol(venta_posible, BeUmbral(in)))
          THEN venta_posible
          ELSE NaN

\* Caso 1: the fixed-rent equation; NaN when it gives no accepted solution
VentaCasoMinimo(in, margen_decimal) ==
    LET denom_minimo == RSub(margen_decimal, TasaVariableTotal(in))
        numerador_minimo ==
            RAdd(RAdd(RAdd(in.Costo_dotacion_fijo,
                           RMul(BeArriendoMinimo(in),
                                RAdd(R(1), in.Arriendo_fondo_promocion_pct))),
                      in.Arriendo_GGCC),
                 in.Redes_sistemas)
        venta_posible == RDiv(numerador_minimo, denom_minimo)
    IN  IF RGt(denom_minimo, R(0))
             /\ (in.Arriendo_porcentual = R(0) \/ LeTol(venta_posible, BeUmbral(in)))
          THEN venta_posible
          ELSE NaN

\* Caso 2: the percentage-rent equation; NaN when it gives no accepted solution
VentaCasoVariable(in, margen_decimal) ==
    LET tasa_arriendo_variable ==
            RMul(in.Arriendo_porcentual, RAdd(R(1), in.Arriendo_fondo_promocion_pct))
        denom_variable ==
            RSub(margen_decimal, RAdd(TasaVariableTotal(in), tasa_arriendo_variable))
        numerador_variable ==
            RAdd(RAdd(in.Costo_dotacion_fijo, in.Arriendo_GGCC), in.Redes_sistemas)
        venta_variable == RDiv(numerador_variable, denom_variable)
    IN  IF RGt(in.Arriendo_porcentual, R(0))
             /\ RGt(denom_variable, R(0))
             /\ GeTol(venta_variable, BeUmbral(in))
          THEN venta_variable
          ELSE NaN

VentaRequeridaSoloMinimo(in, margen_decimal) ==
    LET venta == VentaCasoMinimo(in, margen_decimal)
    IN  IF ~IsNaN(venta) /\ RLt(venta, R(0)) THEN NaN ELSE venta

\* Venta_necesaria with the larger of two accepted solutions taken
VentaRequeridaMayor(in, margen_decimal) ==
    LET v1 == VentaCasoMinimo(in, margen_decimal)
        v2 == VentaCasoVariable(in, margen_decimal)
        venta == IF IsNaN(v2) THEN v1
                 ELSE IF IsNaN(v1) THEN v2
                 ELSE RMax(v1, v2)
    IN  IF ~IsNaN(venta) /\ RLt(venta, R(0)) THEN NaN ELSE venta

\* Venta_necesaria of one grid point
VentaRequerida(in, margen_decimal) ==
    LET v1 == VentaCasoMinimo(in, margen_decimal)
        v2 == VentaCasoVariable(in, margen_decimal)
        venta == IF IsNaN(v2) THEN v1
                 ELSE IF IsNaN(v1) THEN v2
                 ELSE RMin(v1, v2)
    IN  IF ~IsNaN(venta) /\ RLt(venta, R(0)) THEN NaN ELSE venta

\* the base rows and call arguments the solver is exercised with
BeStaff == {<<R(0), R(0), R(0)>>, <<R(3), R(0), R(0)>>, <<R(3), R(2), Frac(1, 5)>>}

BeRent ==
    {R(0), R(2)} \X {R(0), Frac(1, 10), Frac(1, 4), R(5)} \X {R(0), Frac(1, 2)}
        \X {R(1), R(2)} \X {R(-4), R(0), R(1)}

BeOtros == {R(0), Frac(1, 20)}

BeMedioPago == {R(0), Frac(1, 50)}

BeRedes == {R(0), R(1)}

\* month of the latest sales row, 0 when there are no sales
BeMesReferencia == {0, 11, 12}

BeInit ==
    /\ pc = "breakeven"
    /\ TbIdle
    /\ ScIdle
    /\ BkIdle
    /\ FwIdle
    /\ StIdle
    /\ thM = Unset
    /\ thP = Unset
    /\ thOut = Unset
    /\ rowIn = NoRow
    /\ rowOut = NoRow
    /\ rentFila = NoRow
    /\ PipeIdle
    /\ UfIdle
    /\ TmIdle
    /\ SrIdle
    /\ \E st \in BeStaff, rt \in BeRent, ot \in BeOtros, mp \in BeMedioPago,
          red \in BeRedes, mr \in BeMesReferencia, usar \in BOOLEAN :
            beIn = [Sucursal |-> "A",
                    Costo_dotacion_fijo |-> st[1], Vendedores_comision |-> st[2],
                    Tasa_comision_sumada |-> st[3], Tasa_total_ventas |-> R(0),
                    Arriendo_vmm_uf |-> rt[1], Arriendo_porcentual |-> rt[2],
                    Arriendo_fondo_promocion_pct |-> rt[3],
                    Arriendo_factor |-> rt[4], Arriendo_GGCC |-> rt[5],
                    Total_otros_costos |-> ot, Comision_medio_pago |-> mp,
                    Redes_sistemas |-> red, uf_referencia |-> R(1),
                    mes_referencia |-> mr, usar_factor_diciembre |-> usar,
                    margen_paso |-> Frac(100, GridSteps)]
    /\ bePaso = 0
    /\ beRes = <<>>

\* one pass of the loop body: solve the grid point and append the row
BeSolvePaso ==
    /\ pc = "breakeven"
    /\ bePaso <= FinPaso(beIn)
    /\ beRes' = Append(beRes,
                  [Sucursal |-> beIn.Sucursal,
                   Margen_contribucion |-> RMul(R(bePaso), beIn.margen_paso),
                   Venta_necesaria |-> VentaRequerida(beIn, MargenDecimal(beIn, bePaso))])
    /\ bePaso' = bePaso + 1
    /\ UNCHANGED <<pc, thVars, rowVars, pipeVars, beIn, ufVars, tmVars, srVars, stVars, fwVars, bkVars, scVars, tbVars>>

BeNext == BeSolvePaso

SpecBreakeven == BeInit /\ [][BeNext]_vars

\* build_eerr's EBITDA for the solver's store at sales S and margin mg, with
\* the solver's reference UF and the December factor the solver applied
EbitdaAt(in, mg, S) ==
    ComputeMetrics(FillDefaults(
        [Sucursal |-> in.Sucursal, Banner |-> "X",
         Mes |-> IF in.usar_factor_diciembre /\ EsDiciembre(in)
                   THEN <<2025, 12>> ELSE <<2025, 11>>,
         Escenario |-> REAL_SCENARIO,
         Ventas |-> S, Margen_pct |-> mg,
         Costo_dotacion_fijo |-> in.Costo_dotacion_fijo,
         Vendedores_comision |-> in.Vendedores_comision,
         Tasa_comision_sumada |-> in.Tasa_comision_sumada,
         Tasa_total_ventas |-> in.Tasa_total_ventas,
         Arriendo_vmm_uf |-> in.Arriendo_vmm_uf,
         Arriendo_porcentual |-> in.Arriendo_porcentual,
         Arriendo_fondo_promocion_pct |-> in.Arriendo_fondo_promocion_pct,
         Arriendo_factor |-> in.Arriendo_factor,
         Arriendo_GGCC |-> in.Arriendo_GGCC,
         Total_otros_costos |-> in.Total_otros_costos,
         Comision_medio_pago |-> in.Comision_medio_pago,
         UF_promedio |-> in.uf_referencia,
         Redes_por_tienda |-> in.Redes_sistemas])).EBITDA

\* C3: every non-NaN Venta_necesaria S is a true break-even: build_eerr's
\* EBITDA for the store at sales S and that margin is 0.
C3_TrueBreakEven ==
    pc = "breakeven" =>
        \A i \in 1..Len(beRes) :
            ~IsNaN(beRes[i].Venta_necesaria) =>
                EbitdaAt(beIn, RDiv(beRes[i].Margen_contribucion, R(100)),
                         beRes[i].Venta_necesaria) = R(0)

----------------------------------------------------------------------------
(* domain/uf.py: uf_promedio_mensual over io/excel.py: load_uf_diaria.     *)
(* A date is its day number counted from 2024-12-01 (day 0); a month is    *)
(* <<year, month>> and stands for its first day.  A series is a sequence   *)
(* of [dia, uf] in index order.                                            *)

Calendario == <<<<2024, 12>>, <<2025, 1>>, <<2025, 2>>, <<2025, 3>>>>

DiasDelMes(mes) ==
    CASE mes = <<2024, 12>> -> 31
      [] mes = <<2025, 1>> -> 31
      [] mes = <<2025, 2>> -> 28
      [] mes = <<2025, 3>> -> 31

\* the day number of the first day of a month
PrimerDia(mes) ==
    CASE mes = <<2024, 12>> -> 0
      [] mes = <<2025, 1>> -> 31
      [] mes = <<2025, 2>> -> 62
      [] mes = <<2025, 3>> -> 90

\* mes - MonthBegin(1), mes being a first of month
MesAnterior(mes) ==
    IF mes[2] = 1 THEN <<mes[1] - 1, 12>> ELSE <<mes[1], mes[2] - 1>>

\* the calendar month and the day of month of a day number
MesDe(d) ==
    CHOOSE mes \in {Calendario[i] : i \in 1..Len(Calendario)} :
        PrimerDia(mes) <= d /\ d < PrimerDia(mes) + DiasDelMes(mes)

DiaDelMes(d) == d - PrimerDia(MesDe(d)) + 1

Indice(s) == {s[i].dia : i \in 1..Len(s)}

RECURSIVE OrdenarPorFecha(_)
\* sort_values("Fecha")
OrdenarPorFecha(t) ==
    IF t = <<>> THEN <<>>
    ELSE LET i == CHOOSE k \in 1..Len(t) : \A j \in 1..Len(t) : t[k].dia <= t[j].dia
         IN  <<t[i]>> \o OrdenarPorFecha(SubSeq(t, 1, i - 1) \o SubSeq(t, i + 1, Len(t)))

\* reindex(idx).sort_index(): one entry per day of idx, NaN where s has none
Reindex(s, idx) ==
    IF idx = {} THEN <<>>
    ELSE LET lo == MinOf(idx)
             dias == SelectSeq([i \in 1..(MaxOf(idx) - lo + 1) |-> lo + i - 1],
                               LAMBDA d : d \in idx)
         IN  [i \in 1..Len(dias) |->
                 [dia |-> dias[i],
                  uf |-> IF \E j \in 1..Len(s) : s[j].dia = dias[i]
                           THEN s[CHOOSE j \in 1..Len(s) : s[j].dia = dias[i]].uf
                           ELSE NaN]]

Validos(s) == {j \in 1..Len(s) : ~IsNaN(s[j].uf)}

\* interpolate(method="linear"): by position, between the neighbouring known
\* values; after the last known value it repeats it, before the first it
\* leaves NaN
Interpolate(s) ==
    [i \in 1..Len(s) |->
        IF ~IsNaN(s[i].uf) THEN s[i]
        ELSE LET antes == {j \in Validos(s) : j < i}
                 despues == {j \in Validos(s) : j > i}
             IN  IF antes = {} THEN s[i]
                 ELSE IF despues = {} THEN [s[i] EXCEPT !.uf = s[MaxOf(antes)].uf]
                 ELSE LET a == MaxOf(antes)
                          b == MinOf(despues)
                      IN  [s[i] EXCEPT !.uf =
                              RAdd(s[a].uf,
                                   RMul(RSub(s[b].uf, s[a].uf), Frac(i - a, b - a)))]]

\* .ffill().bfill()
FfillBfill(s) ==
    [i \in 1..Len(s) |->
        IF ~IsNaN(s[i].uf) THEN s[i]
        ELSE LET antes == {j \in Validos(s) : j < i}
                 despues == {j \in Validos(s) : j > i}
             IN  IF antes # {} THEN [s[i] EXCEPT !.uf = s[MaxOf(antes)].uf]
                 ELSE IF despues # {} THEN [s[i] EXCEPT !.uf = s[MinOf(despues)].uf]
                 ELSE s[i]]

\* load_uf_diaria: sort, resample("D"), interpolate, ffill, bfill
load_uf_diaria(sheet) ==
    LET uf == OrdenarPorFecha(sheet)
    IN  IF uf = <<>> THEN <<>>
        ELSE FfillBfill(Interpolate(Reindex(uf, uf[1].dia .. uf[Len(uf)].dia)))

InicioVentana(mes) == PrimerDia(MesAnterior(mes)) + 14

FinVentanaDiaTrece(mes) == PrimerDia(mes) + 12

\* fin = mes + Timedelta(days=13)
FinVentana(mes) == PrimerDia(mes) + 13

\* uf_diaria.loc[inicio:fin], both ends inclusive
Ventana(s, mes) ==
    SelectSeq(s, LAMBDA e : InicioVentana(mes) <= e.dia /\ e.dia <= FinVentana(mes))

RECURSIVE SumaUF(_)
SumaUF(s) == IF s = <<>> THEN R(0) ELSE RAdd(s[1].uf, SumaUF(Tail(s)))

\* Series.mean(): NaN entries are skipped; NaN when nothing is left
Mean(s) ==
    LET validos == SelectSeq(s, LAMBDA e : ~IsNaN(e.uf))
    IN  IF validos = <<>> THEN NaN
        ELSE RDiv(SumaUF(validos), R(Len(validos)))

PrimerMes(meses) == CHOOSE m \in meses : \A o \in meses : PrimerDia(m) <= PrimerDia(o)

UltimoMes(meses) == CHOOSE m \in meses : \A o \in meses : PrimerDia(o) <= PrimerDia(m)

\* the daily series extended over the required range (lines 18-25)
SerieExtendida(sheet, meses) ==
    LET uf_diaria == load_uf_diaria(sheet)
        rango == InicioVentana(PrimerMes(meses)) .. FinVentana(UltimoMes(meses))
        faltantes == rango \ Indice(uf_diaria)
    IN  IF faltantes # {}
          THEN FfillBfill(Interpolate(Reindex(uf_diaria, Indice(uf_diaria) \cup faltantes)))
          ELSE uf_diaria

\* the outcome of uf_promedio_mensual: the month -> average mapping, or the
\* ValueError raised for the first month whose window is empty
uf_promedio_mensual(sheet, meses) ==
    IF meses = {} THEN [estado |-> "ok", mes |-> <<0, 0>>, promedios |-> <<>>]
    ELSE LET uf_diaria == SerieExtendida(sheet, meses)
             vacios == {m \in meses : Ventana(uf_diaria, m) = <<>>}
         IN  IF vacios # {}
               THEN [estado |-> "ValueError", mes |-> PrimerMes(vacios),
                     promedios |-> <<>>]
               ELSE [estado |-> "ok", mes |-> <<0, 0>>,
                     promedios |-> [m \in meses |-> Mean(Ventana(uf_diaria, m))]]

\* the UF sheets and requests the averager is exercised with
UfFechas == <<19, 43, 44, 75>>

UfValores == {NaN, R(10), R(40)}

UfMesesPedidos == {<<2025, 1>>, <<2025, 2>>, <<2025, 3>>}

\* the sheet holding one row per date that got a value, in sheet order
UfSheet(valores, invertida) ==
    LET filas == SelectSeq([i \in 1..Len(UfFechas) |->
                               [dia |-> UfFechas[i], uf |-> valores[i]]],
                           LAMBDA e : ~IsNaN(e.uf))
    IN  IF invertida THEN [i \in 1..Len(filas) |-> filas[Len(filas) + 1 - i]]
        ELSE filas

UfInit ==
    /\ pc = "uf"
    /\ TbIdle
    /\ ScIdle
    /\ BkIdle
    /\ FwIdle
    /\ StIdle
    /\ thM = Unset
    /\ thP = Unset
    /\ thOut = Unset
    /\ rowIn = NoRow
    /\ rowOut = NoRow
    /\ rentFila = NoRow
    /\ PipeIdle
    /\ BeIdle
    /\ \E valores \in [1..Len(UfFechas) -> UfValores], invertida \in BOOLEAN :
          ufSrc = UfSheet(valores, invertida)
    /\ ufMeses \in SUBSET UfMesesPedidos
    /\ ufOut = NoOut
    /\ TmIdle
    /\ SrIdle

UfCall ==
    /\ pc = "uf"
    /\ ufOut = NoOut
    /\ ufOut' = uf_promedio_mensual(ufSrc, ufMeses)
    /\ UNCHANGED <<pc, thVars, rowVars, pipeVars, beVars, ufSrc, ufMeses, tmVars, srVars, stVars, fwVars, bkVars, scVars, tbVars>>

UfNext == UfCall

SpecUF == UfInit /\ [][UfNext]_vars

UfDone == pc = "uf" /\ ufOut # NoOut

\* the arithmetic mean of the series over the days from day 15 of the month
\* before mes through day `ultimo` of mes
UfMediaHasta(mes, ultimo) ==
    LET s == SerieExtendida(ufSrc, ufMeses)
    IN  Mean(SelectSeq(s, LAMBDA e :
                \/ MesDe(e.dia) = MesAnterior(mes) /\ DiaDelMes(e.dia) >= 15
                \/ MesDe(e.dia) = mes /\ DiaDelMes(e.dia) <= ultimo))

\* C11 (as stated): for every requested month the returned value is the mean
\* of the daily values dated from day 15 of the previous month through day 13
\* of the month, both inclusive.
C11_Original ==
    (UfDone /\ ufOut.estado = "ok") =>
        \A mes \in ufMeses : ufOut.promedios[mes] = UfMediaHasta(mes, 13)

\* C11 (amended): for every requested month the returned value is the mean
\* of the daily values dated from day 15 of the previous month through day 14
\* of the month, both inclusive, and of no other dates.
C11_WindowMean ==
    (UfDone /\ ufOut.estado = "ok") =>
        \A mes \in ufMeses : ufOut.promedios[mes] = UfMediaHasta(mes, 14)

C11_Witness ==
    /\ UfDone
    /\ ufOut.estado = "ok"
    /\ <<2025, 1>> \in ufMeses
    /\ ufSrc = <<[dia |-> 19, uf |-> R(10)], [dia |-> 43, uf |-> R(10)],
                 [dia |-> 44, uf |-> R(40)]>>
    /\ ufOut.promedios[<<2025, 1>>] = Frac(340, 31)
    /\ UfMediaHasta(<<2025, 1>>, 13) = R(10)

\* the requested months whose window holds no data point after gap filling
UfMesesSinDatos ==
    {mes \in ufMeses :
        SelectSeq(Ventana(SerieExtendida(ufSrc, ufMeses), mes),
                  LAMBDA e : ~IsNaN(e.uf)) = <<>>}

\* C12: when the window of a requested month has no data point after
\* interpolation, uf_promedio_mensual fails with the missing-data error naming
\* such a month; it never returns a value for that month.
C12_FailsOnEmptyWindow ==
    (UfDone /\ UfMesesSinDatos # {}) =>
        /\ ufOut.estado = "ValueError"
        /\ ufOut.mes \in UfMesesSinDatos

----------------------------------------------------------------------------
\* build_store_base: the rent terms of the store's base row after fill_defaults
StoreBaseRent(fila) ==
    LET rt == RentJoin(fila)
    IN  [Arriendo_vmm_uf |-> FillNa(rt[1], R(0)),
         Arriendo_porcentual |-> FillNa(rt[2], R(0)),
         Arriendo_fondo_promocion_pct |-> FillNa(rt[3], R(0)),
         Arriendo_factor |-> FillNa(rt[4], R(1)),
         Arriendo_GGCC |-> FillNa(rt[5], R(0))]

\* the December multiplier is absent in the rent source
RowFactorAusente ==
    rentFila = NoRow \/ IsNaN(rentFila.Factor_Diciembre)

\* C13: a store with no rent row, or with an empty 'Factor Diciembre' cell, has
\* December multiplier 1.0 in build_store_base's table, and in a December row
\* of build_eerr its minimum rent (the fixed rent of a row with sales > 0) is
\* Arriendo_vmm_uf x the monthly UF average.
C13_DecemberFactorDefaultsToOne ==
    (RowDone /\ RowFactorAusente) =>
        /\ StoreBaseRent(rentFila).Arriendo_factor = R(1)
        /\ (rowIn.Mes[2] = 12 /\ RGt(rowIn.Ventas, R(0))) =>
              rowOut.m.Arriendo_fijo =
                  RMul(StoreBaseRent(rentFila).Arriendo_vmm_uf, rowIn.UF_promedio)

\* C14: in every computed row, rows with sales <= 0 included,
\* Gastos_operacionales = Remuneraciones_total + Arriendo_total + Otros_costos
\* + Redes_sistemas + Comision_medio_pago, and
\* EBITDA = Contribucion - Gastos_operacionales.
C14_ExpenseAndEbitdaIdentities ==
    RowDone =>
        /\ rowOut.m.Gastos_operacionales =
              RAdd(RAdd(RAdd(RAdd(rowOut.m.Remuneraciones_total,
                                  rowOut.m.Arriendo_total),
                             rowOut.m.Otros_costos),
                        rowOut.m.Redes_sistemas),
                   rowOut.m.Comision_medio_pago)
        /\ rowOut.m.EBITDA =
              RSub(rowOut.m.Contribucion, rowOut.m.Gastos_operacionales)

\* C20: in every computed row, Margen_EBITDA = the row's EBITDA / Venta x 100
\* when Venta is not 0 and 0 when Venta is 0; the value is always finite (no
\* division by zero).
C20_EbitdaMargin ==
    RowDone =>
        /\ IsFinite(rowOut.m.Margen_EBITDA)
        /\ (rowOut.m.Venta # R(0) =>
              rowOut.m.Margen_EBITDA =
                  RMul(RDiv(rowOut.m.EBITDA, rowOut.m.Venta), R(100)))
        /\ (rowOut.m.Venta = R(0) => rowOut.m.Margen_EBITDA = R(0))

----------------------------------------------------------------------------
(* arriendos/service.py: temporary modifications of a store's rent terms.  *)
(* Dates are ISO-8601 texts (YYYY-MM-DD), which SQLite and Python compare  *)
(* as text; they are modelled by the day numbers TmFechas, which have the  *)
(* same order, and a missing date (None or "") by 0.  Each service call    *)
(* runs on its own connection and commits at its end, so it is one step.   *)

TmFechas == 1..2

MaxMods == 2

MaxAudit == 3

TmStores == {1, 2}

TmFields == {"base_rent_uf", "ggcc_clp"}

\* the payloads of create_temporary_modification after _to_iso and strip()
TmPayloads ==
    [field_name : TmFields \cup {""}, start_date : {0} \cup TmFechas,
     end_date : {0} \cup TmFechas]

has_overlap_estricto(mods, store_id, field_name, start_date, end_date) ==
    \E i \in 1..Len(mods) :
        /\ mods[i].store_id = store_id
        /\ mods[i].field_name = field_name
        /\ mods[i].is_active = 1
        /\ ~(mods[i].end_date <= start_date \/ mods[i].start_date >= end_date)

\* _has_overlap: COUNT(*) > 0 over the active rows of the store and field with
\* NOT (end_date < ? OR start_date > ?)
has_overlap(mods, store_id, field_name, start_date, end_date) ==
    \E i \in 1..Len(mods) :
        /\ mods[i].store_id = store_id
        /\ mods[i].field_name = field_name
        /\ mods[i].is_active = 1
        /\ ~(mods[i].end_date < start_date \/ mods[i].start_date > end_date)

\* log_audit: one row appended to arriendos_audit_log
AuditRow(store_id, action, entity_id) ==
    [store_id |-> store_id, action |-> action, entity_id |-> entity_id]

TmInit ==
    /\ pc = "arriendos"
    /\ TbIdle
    /\ ScIdle
    /\ BkIdle
    /\ FwIdle
    /\ StIdle
    /\ thM = Unset
    /\ thP = Unset
    /\ thOut = Unset
    /\ rowIn = NoRow
    /\ rowOut = NoRow
    /\ rentFila = NoRow
    /\ PipeIdle
    /\ BeIdle
    /\ UfIdle
    /\ TmIdle
    /\ SrIdle

\* create_temporary_modification(store_id, payload, user_id)
CreateTemporaryModification(store_id, payload) ==
    /\ pc = "arriendos"
    /\ IF \/ payload.start_date = 0
          \/ payload.end_date = 0
          \/ payload.field_name = ""
          \/ payload.start_date > payload.end_date
         THEN /\ tmLast' = [op |-> "create", code |-> "VALIDATION_ERROR"]
              /\ UNCHANGED <<tmMods, tmAudit, srVars, stVars, fwVars, bkVars, scVars, tbVars>>
         ELSE IF has_overlap(tmMods, store_id, payload.field_name,
                             payload.start_date, payload.end_date)
         THEN /\ tmLast' = [op |-> "create", code |-> "OVERLAP_TEMP_MODIFICATION"]
              /\ UNCHANGED <<tmMods, tmAudit, srVars, stVars, fwVars, bkVars, scVars, tbVars>>
         ELSE LET mod_id == Len(tmMods) + 1
              IN  /\ Len(tmMods) < MaxMods
                  /\ Len(tmAudit) < MaxAudit
                  /\ tmMods' = Append(tmMods,
                        [id |-> mod_id, store_id |-> store_id,
                         field_name |-> payload.field_name,
                         start_date |-> payload.start_date,
                         end_date |-> payload.end_date, is_active |-> 1])
                  /\ tmAudit' = Append(tmAudit,
                        AuditRow(store_id, "temporary_modification_created", mod_id))
                  /\ tmLast' = [op |-> "create", code |-> "OK"]
    /\ UNCHANGED <<pc, thVars, rowVars, pipeVars, beVars, ufVars, srVars, stVars, fwVars, bkVars, scVars, tbVars>>

\* delete_temporary_modification(store_id, modification_id, user_id)
DeleteTemporaryModification(store_id, modification_id) ==
    /\ pc = "arriendos"
    /\ Len(tmAudit) < MaxAudit
    /\ IF \E i \in 1..Len(tmMods) :
              tmMods[i].id = modification_id /\ tmMods[i].store_id = store_id
         THEN /\ tmMods' = [i \in 1..Len(tmMods) |->
                    IF tmMods[i].id = modification_id /\ tmMods[i].store_id = store_id
                      THEN [tmMods[i] EXCEPT !.is_active = 0]
                      ELSE tmMods[i]]
              /\ tmAudit' = Append(tmAudit,
                    AuditRow(store_id, "temporary_modification_deactivated",
                             modification_id))
              /\ tmLast' = [op |-> "delete", code |-> "OK"]
         ELSE /\ tmLast' = [op |-> "delete", code |-> "MODIFICATION_NOT_FOUND"]
              /\ UNCHANGED <<tmMods, tmAudit, srVars, stVars, fwVars, bkVars, scVars, tbVars>>
    /\ UNCHANGED <<pc, thVars, rowVars, pipeVars, beVars, ufVars, srVars, stVars, fwVars, bkVars, scVars, tbVars>>

\* the rows revert_expired_temporary_modifications selects on day `today`
Expired(mods, today) ==
    SelectSeq(mods, LAMBDA m : m.is_active = 1 /\ m.end_date # 0 /\ m.end_date < today)

\* revert_expired_temporary_modifications(user_id), date.today() being `today`
RevertExpiredTemporaryModifications(today) ==
    LET rows == Expired(tmMods, today)
    IN  /\ pc = "arriendos"
        /\ Len(tmAudit) + Len(rows) <= MaxAudit
        /\ tmMods' = [i \in 1..Len(tmMods) |->
              IF \E k \in 1..Len(rows) : rows[k].id = tmMods[i].id
                THEN [tmMods[i] EXCEPT !.is_active = 0]
                ELSE tmMods[i]]
        /\ tmAudit' = tmAudit \o
              [k \in 1..Len(rows) |->
                  AuditRow(rows[k].store_id, "temporary_modification_auto_reverted",
                           rows[k].id)]
        /\ tmLast' = [op |-> "revert", code |-> "OK"]
        /\ UNCHANGED <<pc, thVars, rowVars, pipeVars, beVars, ufVars, srVars, stVars, fwVars, bkVars, scVars, tbVars>>

TmNext ==
    \/ \E store_id \in TmStores, payload \in TmPayloads :
          CreateTemporaryModification(store_id, payload)
    \/ \E store_id \in TmStores, modification_id \in 1..MaxMods :
          DeleteTemporaryModification(store_id, modification_id)
    \/ \E today \in TmFechas \cup {MaxOf(TmFechas) + 1} :
          RevertExpiredTemporaryModifications(today)

SpecArriendos == TmInit /\ [][TmNext]_vars

\* two rows are active modifications of the same store and field whose
\* inclusive ranges share a day
TmSolapadas(a, b) ==
    /\ a.is_active = 1
    /\ b.is_active = 1
    /\ a.store_id = b.store_id
    /\ a.field_name = b.field_name
    /\ \E d \in TmFechas :
          /\ a.start_date <= d /\ d <= a.end_date
          /\ b.start_date <= d /\ d <= b.end_date

\* a create call with a valid payload whose range shares a day with an active
\* modification of the same store and field
TmCreateSolapado(store_id, payload) ==
    /\ payload.field_name # ""
    /\ payload.start_date # 0
    /\ payload.start_date <= payload.end_date
    /\ \E i \in 1..Len(tmMods) :
          TmSolapadas(tmMods[i],
                      [is_active |-> 1, store_id |-> store_id,
                       field_name |-> payload.field_name,
                       start_date |-> payload.start_date,
                       end_date |-> payload.end_date])
    /\ CreateTemporaryModification(store_id, payload)

\* C15: after any sequence of create, delete and revert-expired calls no two
\* active temporary modifications of the same store and field overlap; and a
\* create whose range overlaps an active one fails with
\* OVERLAP_TEMP_MODIFICATION, leaving the modifications and the audit log as
\* they were.
C15_NoOverlappingActive ==
    /\ [](pc = "arriendos" =>
            \A i, j \in 1..Len(tmMods) : i # j => ~TmSolapadas(tmMods[i], tmMods[j]))
    /\ [][\A store_id \in TmStores, payload \in TmPayloads :
              TmCreateSolapado(store_id, payload) =>
                  /\ tmLast'.code = "OVERLAP_TEMP_MODIFICATION"
                  /\ tmMods' = tmMods
                  /\ tmAudit' = tmAudit]_vars

C15_Witness ==
    /\ pc = "arriendos"
    /\ tmLast = [op |-> "create", code |-> "OVERLAP_TEMP_MODIFICATION"]
    /\ Len(tmMods) = 2
    /\ tmMods[1].is_active = 1 /\ tmMods[2].is_active = 1
    /\ tmMods[1].store_id = tmMods[2].store_id
    /\ tmMods[1].field_name = tmMods[2].field_name
    /\ tmMods[1].end_date < tmMods[2].start_date
    /\ Len(tmAudit) = 2

----------------------------------------------------------------------------
(* interfaces/state_report.py: _prepare_store_data, the rent details of    *)
(* one store found in build_store_base's table.                            *)

factor_aplicado_siempre(fila_base, es_diciembre) == fila_base.Arriendo_factor

\* factor_aplicado = Arriendo_factor if es_diciembre else 1.0
factor_aplicado(fila_base, es_diciembre) ==
    IF es_diciembre THEN fila_base.Arriendo_factor ELSE R(1)

\* rent_details of the store (threshold_clp is None unless the rate is > 0)
prepare_store_data(fila_base, es_diciembre, uf_vigente) ==
    LET arriendo_minimo ==
            RMul(RMul(fila_base.Arriendo_vmm_uf, uf_vigente),
                 factor_aplicado(fila_base, es_diciembre))
        umbral_variable ==
            IF RGt(fila_base.Arriendo_porcentual, R(0))
              THEN RDiv(arriendo_minimo, fila_base.Arriendo_porcentual)
              ELSE None
    IN  [Sucursal |-> fila_base.Sucursal,
         threshold_clp |-> umbral_variable,
         vmm_uf |-> fila_base.Arriendo_vmm_uf,
         percent |-> fila_base.Arriendo_porcentual]

\* the base rows (after fill_defaults), reference months and UF values the
\* report is exercised with; mes_referencia 0 stands for no sales at all
SrFilas ==
    [Sucursal : {"A"},
     Arriendo_vmm_uf : {R(0), R(2)},
     Arriendo_porcentual : {R(0), Frac(1, 10), Frac(1, 4), R(5)},
     Arriendo_factor : {R(0), R(1), R(2)},
     mes_referencia : {0, 11, 12},
     uf_vigente : {R(1), R(3)}]

SrInit ==
    /\ pc = "report"
    /\ TbIdle
    /\ ScIdle
    /\ BkIdle
    /\ FwIdle
    /\ StIdle
    /\ thM = Unset
    /\ thP = Unset
    /\ thOut = Unset
    /\ rowIn = NoRow
    /\ rowOut = NoRow
    /\ rentFila = NoRow
    /\ PipeIdle
    /\ BeIdle
    /\ UfIdle
    /\ TmIdle
    /\ srIn \in SrFilas
    /\ srOut = NoRow

SrPrepareStoreData ==
    /\ pc = "report"
    /\ srOut = NoRow
    /\ srOut' = prepare_store_data(srIn, EsDiciembre(srIn), srIn.uf_vigente)
    /\ UNCHANGED <<pc, thVars, rowVars, pipeVars, beVars, ufVars, tmVars, srIn, stVars, fwVars, bkVars, scVars, tbVars>>

SrNext == SrPrepareStoreData

SpecReport == SrInit /\ [][SrNext]_vars

SrDone == pc = "report" /\ srOut # NoRow

\* the store's minimum rent in CLP at the reference month
SrMinimumRent ==
    RMul(RMul(srIn.Arriendo_vmm_uf, srIn.uf_vigente),
         IF srIn.mes_referencia = 12 THEN srIn.Arriendo_factor ELSE R(1))

----------------------------------------------------------------------------
(* Claims on the regimes of the break-even solver.                         *)

\* the margin, as a fraction, of the i-th solved grid point
BeMargenDe(i) == RDiv(beRes[i].Margen_contribucion, R(100))

BeDenomMinimo(mg) == RSub(mg, TasaVariableTotal(beIn))

BeDenomVariable(mg) ==
    RSub(mg, RAdd(TasaVariableTotal(beIn),
                  RMul(beIn.Arriendo_porcentual,
                       RAdd(R(1), beIn.Arriendo_fondo_promocion_pct))))

\* the percentage rent of sales S, the rate being normalised as the threshold
\* normalises it
BeRentaPorcentual(S) ==
    RMul(S, NormalizaPorcentaje(beIn.Arriendo_porcentual))

\* C17: every non-NaN Venta_necesaria S is consistent with the regime whose
\* equation produced it: a fixed-rent solution has a positive denominator and
\* S x rate <= minimum rent, a percentage-rent solution has a positive
\* denominator and S x rate >= minimum rent, each within relative 1e-9.
C17_RegimeSelfConsistent ==
    pc = "breakeven" =>
        \A i \in 1..Len(beRes) :
            LET S == beRes[i].Venta_necesaria
                mg == BeMargenDe(i)
            IN  ~IsNaN(S) =>
                  /\ (S = VentaCasoMinimo(beIn, mg) =>
                        /\ RGt(BeDenomMinimo(mg), R(0))
                        /\ LeTol(BeRentaPorcentual(S), BeArriendoMinimo(beIn)))
                  /\ (S = VentaCasoVariable(beIn, mg) =>
                        /\ RGt(BeDenomVariable(mg), R(0))
                        /\ GeTol(BeRentaPorcentual(S), BeArriendoMinimo(beIn)))

----------------------------------------------------------------------------
\* C19: real precedence holds uniformly in build_eerr's output: for no
\* (store, month) does it hold both a Real row carrying data and a Budget row,
\* be it a Budget data row or an all-NaN Budget filler.
C19_UniformRealPrecedence ==
    pc = "done" =>
        \A r, b \in Rows(eerr) :
            ~(/\ r.Escenario = REAL_SCENARIO
              /\ ~MetricNa(r)
              /\ b.Escenario = BUDGET_SCENARIO
              /\ Clave(b) = Clave(r))

----------------------------------------------------------------------------
(* Claims on the December factor of the break-even solver.                 *)

\* the store with another December factor
BeConFactor(in, factor) == [in EXCEPT !.Arriendo_factor = factor]

\* the store whose minimum rent in UF is already multiplied by its factor
BeConFactorEnVmm(in) ==
    [in EXCEPT !.Arriendo_vmm_uf = RMul(in.Arriendo_vmm_uf, in.Arriendo_factor),
               !.Arriendo_factor = R(1)]

BeFactores == {R(0), R(1), R(2), R(3)}

\* C21: the solver multiplies the minimum rent by Arriendo_factor exactly
\* when usar_factor_diciembre is true and the latest sales month is a
\* December, and by 1 otherwise; with usar_factor_diciembre false the
\* threshold and every Venta_necesaria are the same for any Arriendo_factor.
C21_FactorOnlyWhenAskedInDecember ==
    pc = "breakeven" =>
        LET aplica == beIn.usar_factor_diciembre /\ beIn.mes_referencia = 12
            sin_factor == RMul(beIn.Arriendo_vmm_uf, beIn.uf_referencia)
        IN  /\ BeArriendoMinimo(beIn) =
                  IF aplica THEN RMul(sin_factor, beIn.Arriendo_factor)
                            ELSE sin_factor
            /\ \A i \in 1..Len(beRes) :
                  /\ beRes[i].Venta_necesaria =
                        IF aplica
                          THEN VentaRequerida(BeConFactor(BeConFactorEnVmm(beIn), R(1)),
                                              BeMargenDe(i))
                          ELSE VentaRequerida(BeConFactor(beIn, R(1)), BeMargenDe(i))
                  /\ ~beIn.usar_factor_diciembre =>
                        \A factor \in BeFactores :
                            /\ BeUmbral(BeConFactor(beIn, factor)) = BeUmbral(beIn)
                            /\ VentaRequerida(BeConFactor(beIn, factor), BeMargenDe(i))
                                  = beRes[i].Venta_necesaria

\* a December store with factor 2 solved with the factor: its fixed-rent
\* solution carries the doubled minimum rent; and the same store solved
\* without the factor
C21_Witness ==
    /\ pc = "breakeven"
    /\ beIn.mes_referencia = 12
    /\ beIn.Arriendo_factor = R(2)
    /\ beIn.Arriendo_vmm_uf = R(2)
    /\ beIn.usar_factor_diciembre
    /\ \E i \in 1..Len(beRes) :
          /\ ~IsNaN(beRes[i].Venta_necesaria)
          /\ beRes[i].Venta_necesaria = VentaCasoMinimo(beIn, BeMargenDe(i))
          /\ beRes[i].Venta_necesaria #
                VentaRequerida(BeConFactor(beIn, R(1)), BeMargenDe(i))

----------------------------------------------------------------------------
(* io/excel.py: load_staff_costs (lines 94-142), the record built for one  *)
(* row of sheet Dotacion.  stRow maps a column to its headcount (after     *)
(* fillna(0)), stCostos maps the roles listed in sheet Costos to the sum   *)
(* of their fixed components and their commission value.                   *)

\* config: ROLE_MAP, column of sheet Dotacion -> role, in dictionary order
ROLE_MAP ==
    << <<"JEFE", "Jefe">>, <<"SUB JEFE", "Sub jefe">>, <<"CAJERO", "Cajera FT">>,
       <<"CAJERO PT20", "Cajeras PT20">>, <<"BODEGUERO", "Bodeguero">>,
       <<"FT", "Fulltime">>, <<"PT30", "Part Time 30">>, <<"PT20", "Part Time 20">>,
       <<"ANFITRIONA", "Anfitrion">>, <<"VISUAL", "Visual">> >>

TOTAL_SALES_COMMISSIONS == {"Jefe", "Sub jefe"}

EXCLUDED_COMMISSION_ROLES ==
    {"Cajera FT", "Cajeras PT20", "Bodeguero", "Anfitrion", "Visual"}

\* componentes_fijos.get(role, 0.0)
ComponentesFijos(costos, role) ==
    IF role \in DOMAIN costos THEN costos[role].fijo ELSE R(0)

\* valores_comision.get(role, 0.0)
ValoresComision(costos, role) ==
    IF role \in DOMAIN costos THEN costos[role].comision ELSE R(0)

\* row.get(columna, 0) or 0
Cantidad(row, columna) ==
    IF columna \in DOMAIN row THEN row[columna] ELSE R(0)

TasaVentasTotalesSinNormalizar(comision) == comision

\* tasa: a commission above 1 is a rate per hundred million
TasaVentasTotales(comision) ==
    IF RLe(comision, R(1)) THEN comision ELSE RDiv(comision, R(100000000))

StaffVacio ==
    [fijo |-> R(0), vendedores |-> R(0), tasa_sumada |-> R(0),
     tasa_total_ventas |-> R(0), dotacion_total |-> R(0), detalle |-> <<>>]

\* one pass of the loop over ROLE_MAP
StaffPaso(row, costos, k, acc) ==
    LET columna == ROLE_MAP[k][1]
        role == ROLE_MAP[k][2]
        cantidad == Cantidad(row, columna)
        comision == ValoresComision(costos, role)
        contado ==
            [acc EXCEPT
               !.dotacion_total = RAdd(@, cantidad),
               !.detalle = [r \in DOMAIN acc.detalle \cup {role} |->
                              IF r = role
                                THEN RAdd(IF role \in DOMAIN acc.detalle
                                            THEN acc.detalle[role] ELSE R(0),
                                          cantidad)
                                ELSE acc.detalle[r]],
               !.fijo = RAdd(@, RMul(cantidad, ComponentesFijos(costos, role)))]
    IN  IF cantidad = R(0) THEN acc
        ELSE IF role \in TOTAL_SALES_COMMISSIONS /\ RGt(comision, R(0))
          THEN [contado EXCEPT
                  !.tasa_total_ventas =
                      RAdd(@, RMul(cantidad, TasaVentasTotales(comision)))]
        ELSE IF role \in EXCLUDED_COMMISSION_ROLES THEN contado
        ELSE IF RGt(comision, R(1))
          THEN [contado EXCEPT !.fijo = RAdd(@, RMul(cantidad, comision))]
        ELSE IF RGt(comision, R(0))
          THEN [contado EXCEPT
                  !.vendedores = RAdd(@, cantidad),
                  !.tasa_sumada = RAdd(@, RMul(cantidad, comision))]
        ELSE contado

RECURSIVE StaffLoop(_, _, _, _)
StaffLoop(row, costos, k, acc) ==
    IF k > Len(ROLE_MAP) THEN acc
    ELSE StaffLoop(row, costos, k + 1, StaffPaso(row, costos, k, acc))

\* the record appended to registros for the row
load_staff_costs(sucursal, row, costos) ==
    LET acc == StaffLoop(row, costos, 1, StaffVacio)
    IN  [Sucursal |-> sucursal,
         Costo_dotacion_fijo |-> acc.fijo,
         Vendedores_comision |-> acc.vendedores,
         Tasa_comision_sumada |-> acc.tasa_sumada,
         Tasa_total_ventas |-> acc.tasa_total_ventas,
         Dotacion_total |-> acc.dotacion_total,
         Dotacion_detalle |-> acc.detalle]

\* the Dotacion rows and Costos sheets the loader is exercised with
StColumnas == {ROLE_MAP[k][1] : k \in 1..Len(ROLE_MAP)}

StRows ==
    {[c \in StColumnas |->
        CASE c = "JEFE" -> R(j)
          [] c = "SUB JEFE" -> R(s)
          [] c = "CAJERO" -> R(cj)
          [] c = "FT" -> R(ft)
          [] c = "PT30" -> R(pt)
          [] OTHER -> R(0)] :
      j \in {0, 1}, s \in {0, 2}, cj \in {0, 1}, ft \in {0, 2}, pt \in {0, 1}}

StCostosSheets ==
    {[r \in {"Jefe", "Sub jefe", "Cajera FT", "Fulltime", "Part Time 30"} |->
        CASE r = "Jefe" -> [fijo |-> R(20), comision |-> cj]
          [] r = "Sub jefe" -> [fijo |-> R(15), comision |-> cs]
          [] r = "Cajera FT" -> [fijo |-> R(10), comision |-> cc]
          [] r = "Fulltime" -> [fijo |-> R(10), comision |-> cf]
          [] r = "Part Time 30" -> [fijo |-> R(6), comision |-> cp]] :
      cj \in {R(0), Frac(1, 100), R(2)}, cs \in {Frac(1, 4), R(1)},
      cc \in {R(0), Frac(1, 10), R(5)},
      cf \in {R(0), Frac(1, 10), R(1), R(5)}, cp \in {Frac(1, 5), R(7)}}

StInit ==
    /\ pc = "staff"
    /\ TbIdle
    /\ ScIdle
    /\ BkIdle
    /\ FwIdle
    /\ thM = Unset
    /\ thP = Unset
    /\ thOut = Unset
    /\ rowIn = NoRow
    /\ rowOut = NoRow
    /\ rentFila = NoRow
    /\ PipeIdle
    /\ BeIdle
    /\ UfIdle
    /\ TmIdle
    /\ SrIdle
    /\ stRow \in StRows
    /\ stCostos \in StCostosSheets
    /\ stOut = NoRow

StLoadStaffCosts ==
    /\ pc = "staff"
    /\ stOut = NoRow
    /\ stOut' = load_staff_costs("A", stRow, stCostos)
    /\ UNCHANGED <<pc, thVars, rowVars, pipeVars, beVars, ufVars, tmVars, srVars,
                   stRow, stCostos, fwVars, bkVars, scVars, tbVars>>

StNext == StLoadStaffCosts

SpecStaff == StInit /\ [][StNext]_vars

StDone == pc = "staff" /\ stOut # NoRow

StRoles == {ROLE_MAP[k][2] : k \in 1..Len(ROLE_MAP)}

\* the headcount n of a role and its commission value c
StN(role) ==
    LET k == CHOOSE i \in 1..Len(ROLE_MAP) : ROLE_MAP[i][2] = role
    IN  stRow[ROLE_MAP[k][1]]

StC(role) == IF role \in DOMAIN stCostos THEN stCostos[role].comision ELSE R(0)

StOtros == StRoles \ (TOTAL_SALES_COMMISSIONS \cup EXCLUDED_COMMISSION_ROLES)

\* the sum of g over the roles of S
RECURSIVE SumaRoles(_, _)
SumaRoles(g, S) ==
    IF S = {} THEN R(0)
    ELSE LET r == CHOOSE x \in S : TRUE
         IN  RAdd(g[r], SumaRoles(g, S \ {r}))

\* C22: every role with headcount n # 0 and commission value c puts c in one
\* place: a total-sales role adds n x rate to Tasa_total_ventas (rate = c up
\* to 1, c / 100,000,000 above); an excluded role adds nothing; another role
\* adds n x c to the fixed cost when c > 1, or n to Vendedores_comision and
\* n x c to Tasa_comision_sumada when 0 < c <= 1.  Dotacion_total is the sum
\* of the headcounts of Dotacion_detalle.
C22_CommissionDestinations ==
    StDone =>
        LET rate(c) == IF RLe(c, R(1)) THEN c ELSE RDiv(c, R(100000000))
            pool == {r \in StOtros : RGt(StC(r), R(0)) /\ RLe(StC(r), R(1))}
            planos == {r \in StOtros : RGt(StC(r), R(1))}
        IN  /\ stOut.Tasa_total_ventas =
                  SumaRoles([r \in StRoles |-> RMul(StN(r), rate(StC(r)))],
                            TOTAL_SALES_COMMISSIONS)
            /\ stOut.Vendedores_comision =
                  SumaRoles([r \in StRoles |-> StN(r)], pool)
            /\ stOut.Tasa_comision_sumada =
                  SumaRoles([r \in StRoles |-> RMul(StN(r), StC(r))], pool)
            /\ stOut.Costo_dotacion_fijo =
                  RAdd(SumaRoles([r \in StRoles |->
                                    RMul(StN(r), ComponentesFijos(stCostos, r))],
                                 StRoles),
                       SumaRoles([r \in StRoles |-> RMul(StN(r), StC(r))], planos))
            /\ DOMAIN stOut.Dotacion_detalle = {r \in StRoles : StN(r) # R(0)}
            /\ \A r \in DOMAIN stOut.Dotacion_detalle :
                  stOut.Dotacion_detalle[r] = StN(r)
            /\ stOut.Dotacion_total =
                  SumaRoles(stOut.Dotacion_detalle, DOMAIN stOut.Dotacion_detalle)

\* a store with a Jefe paid 2 per hundred million of sales, a cashier whose
\* commission is ignored, full-timers in the per-head pool and a part-timer
\* with a flat amount
C22_Witness ==
    /\ StDone
    /\ stRow["JEFE"] = R(1) /\ stCostos["Jefe"].comision = R(2)
    /\ stRow["SUB JEFE"] = R(0)
    /\ stRow["CAJERO"] = R(1) /\ stCostos["Cajera FT"].comision = R(5)
    /\ stRow["FT"] = R(2) /\ stCostos["Fulltime"].comision = Frac(1, 10)
    /\ stRow["PT30"] = R(1) /\ stCostos["Part Time 30"].comision = R(7)
    /\ stOut.Tasa_total_ventas = Frac(1, 50000000)
    /\ stOut.Vendedores_comision = R(2)
    /\ stOut.Tasa_comision_sumada = Frac(1, 5)
    /\ stOut.Costo_dotacion_fijo = R(63)
    /\ stOut.Dotacion_total = R(5)

----------------------------------------------------------------------------
(* utils/file_watcher.py: FileWatcher, and cli/auto_regenerate.py:         *)
(* run_auto_regenerate (lines 38-88).  An mtime is a positive integer; a   *)
(* file without an entry in the timestamps has 0 there.                    *)

\* mtimes a data file may reach
MaxMtime == 3

\* get_data_files(): the data files of the directory
FwFiles == {"D1_Ventas.xlsx", "D3_Arriendos.xlsx"}

\* check_changes: the files reported, new ones and modified ones
CambiosDetectados(timestamps, mtime) ==
    {f \in FwFiles : timestamps[f] = 0 \/ mtime[f] > timestamps[f]}

\* check_changes: self.timestamps after the loop over the files
TimestampsVistos(timestamps, mtime) == [f \in FwFiles |-> mtime[f]]

FwInit ==
    /\ pc = "fw_inicio"
    /\ TbIdle
    /\ ScIdle
    /\ BkIdle
    /\ thM = Unset
    /\ thP = Unset
    /\ thOut = Unset
    /\ rowIn = NoRow
    /\ rowOut = NoRow
    /\ rentFila = NoRow
    /\ PipeIdle
    /\ BeIdle
    /\ UfIdle
    /\ TmIdle
    /\ SrIdle
    /\ StIdle
    /\ fwMtime = [f \in FwFiles |-> 1]
    /\ fwCache \in [FwFiles -> {0, 1}]
    /\ fwTimestamps = fwCache
    /\ fwChanged = {}
    /\ fwFallidos = {}

\* the first generation: generate_reports, then update_cache when it succeeds
FwGeneracionInicial(ok) ==
    /\ pc = "fw_inicio"
    /\ pc' = "fw_loop"
    /\ fwCache' = IF ok THEN fwTimestamps ELSE fwCache
    /\ UNCHANGED <<thVars, rowVars, pipeVars, beVars, ufVars, tmVars, srVars, stVars,
                   fwMtime, fwTimestamps, fwChanged, fwFallidos, bkVars, scVars, tbVars>>

\* one pass of the monitoring loop: check_changes, and when it reports
\* changes generate_reports, followed by update_cache unless it raised
FwIteracion(ok) ==
    /\ pc = "fw_loop"
    /\ LET changed_files == CambiosDetectados(fwTimestamps, fwMtime)
           vistos == TimestampsVistos(fwTimestamps, fwMtime)
       IN  /\ fwChanged' = changed_files
           /\ fwTimestamps' = vistos
           /\ fwCache' = IF changed_files # {} /\ ok THEN vistos ELSE fwCache
           /\ fwFallidos' = IF changed_files = {} THEN fwFallidos
                            ELSE IF ok THEN {}
                            ELSE fwFallidos \cup changed_files
    /\ UNCHANGED <<pc, thVars, rowVars, pipeVars, beVars, ufVars, tmVars, srVars, stVars,
                   fwMtime, bkVars, scVars, tbVars>>

\* the environment saves a data file
FwModificaArchivo(f) ==
    /\ pc \in {"fw_inicio", "fw_loop"}
    /\ fwMtime[f] < MaxMtime
    /\ fwMtime' = [fwMtime EXCEPT ![f] = @ + 1]
    /\ fwFallidos' = fwFallidos \ {f}
    /\ UNCHANGED <<pc, thVars, rowVars, pipeVars, beVars, ufVars, tmVars, srVars, stVars,
                   fwTimestamps, fwCache, fwChanged, bkVars, scVars, tbVars>>

FwNext ==
    \/ \E ok \in BOOLEAN : FwGeneracionInicial(ok)
    \/ \E ok \in BOOLEAN : FwIteracion(ok)
    \/ \E f \in FwFiles : FwModificaArchivo(f)

SpecWatcher == FwInit /\ [][FwNext]_vars

\* C23: a change whose regeneration failed is not lost: a later pass of the
\* loop, the file not having been modified meanwhile, reports the file as
\* changed again.
C23_FailedChangeReportedAgain ==
    [][(pc = "fw_loop" /\ pc' = "fw_loop" /\ fwMtime' = fwMtime)
          => fwFallidos \subseteq fwChanged']_vars

----------------------------------------------------------------------------
(* arriendos/service.py: create_backup (1124-1197), list_backups           *)
(* (1200-1212), restore_backup (1215-1256), delete_backup (1259-1288),     *)
(* called from concurrent request threads.  Table backup_metadata lives in *)
(* the database that is backed up and restored (database/db.py:298), so a  *)
(* database value carries its own list of backups.  A backup id is the     *)
(* second of the clock at which create_backup ran.                         *)

\* seconds the clock may reach
MaxNow == 2

BkThreads == {1, 2}

BkIds == 1..MaxNow

\* a thread outside any call
BkOciosa == [pc |-> "idle", backup_id |-> 0, nuevo |-> 0, escribio |-> FALSE]

BkSinResultado == [op |-> "-", code |-> "-", restored |-> 0, pre |-> 0]

BkError(op, code) ==
    [op |-> op, code |-> code, restored |-> 0, pre |-> 0]

\* lock.release() would leave the lock held
release_olvidado(holder) == holder

\* lock.release() of the finally clauses
release(holder) == 0

\* _create_sqlite_backup / _restore_sqlite_backup: the destination becomes a
\* copy of the source; a source file that does not exist is created empty
SqliteBackup(source) == source

BkVacia == [meta |-> {}, audit |-> <<>>]

\* list_backups(): the ids of table backup_metadata
list_backups(db) == db.meta

\* log_audit(cursor, action=..., entity_id=...); of table arriendos_audit_log
\* a database value keeps the latest row
BkLogAudit(db, action, entity_id) ==
    [db EXCEPT !.audit = <<action, entity_id>>]

BkInit ==
    /\ pc = "backups"
    /\ TbIdle
    /\ ScIdle
    /\ thM = Unset
    /\ thP = Unset
    /\ thOut = Unset
    /\ rowIn = NoRow
    /\ rowOut = NoRow
    /\ rentFila = NoRow
    /\ PipeIdle
    /\ BeIdle
    /\ UfIdle
    /\ TmIdle
    /\ SrIdle
    /\ StIdle
    /\ FwIdle
    /\ bkDb = BkVacia
    /\ bkFiles = <<>>
    /\ bkNow = 1
    /\ bkLockB = 0
    /\ bkLockR = 0
    /\ bkCall = [t \in BkThreads |-> BkOciosa]
    /\ bkRes = BkSinResultado

BkOtros == <<pc, thVars, rowVars, pipeVars, beVars, ufVars, tmVars, srVars, stVars, fwVars>>

\* the end of a call with an exception: the finally clauses release what the
\* thread holds
BkRaise(t, op, code) ==
    /\ bkCall' = [bkCall EXCEPT ![t] = BkOciosa]
    /\ bkRes' = BkError(op, code)
    /\ bkLockB' = IF bkLockB = t THEN release(bkLockB) ELSE bkLockB
    /\ bkLockR' = IF bkLockR = t THEN release(bkLockR) ELSE bkLockR

\* create_backup, line 1125: the non-blocking acquire
BkCreateBackup(t) ==
    /\ pc = "backups"
    /\ bkCall[t].pc = "idle"
    /\ IF bkLockB # 0
         THEN /\ bkRes' = BkError("create_backup", "BACKUP_OPERATION_IN_PROGRESS")
              /\ UNCHANGED <<bkCall, bkLockB, scVars, tbVars>>
         ELSE /\ bkLockB' = t
              /\ bkCall' = [bkCall EXCEPT ![t].pc = "cb_copy"]
              /\ UNCHANGED bkRes
    /\ UNCHANGED <<BkOtros, bkDb, bkFiles, bkNow, bkLockR, scVars, tbVars>>

\* create_backup, lines 1133-1142: the id from the clock and the copy of the
\* live database into the backup file; falla is an OSError of the copy
BkCopia(t, falla) ==
    /\ pc = "backups"
    /\ bkCall[t].pc \in {"cb_copy", "rs_cb_copy"}
    /\ LET op == IF bkCall[t].pc = "cb_copy" THEN "create_backup" ELSE "restore_backup"
       IN  IF falla
             THEN /\ BkRaise(t, op, "OSError")
                  /\ UNCHANGED bkFiles
             ELSE /\ bkFiles' = [i \in DOMAIN bkFiles \cup {bkNow} |->
                                   IF i = bkNow THEN SqliteBackup(bkDb) ELSE bkFiles[i]]
                  /\ bkCall' = [bkCall EXCEPT
                                  ![t].nuevo = bkNow,
                                  ![t].pc = IF bkCall[t].pc = "cb_copy"
                                              THEN "cb_insert" ELSE "rs_cb_insert"]
                  /\ UNCHANGED <<bkRes, bkLockB, bkLockR, scVars, tbVars>>
    /\ UNCHANGED <<BkOtros, bkDb, bkNow, scVars, tbVars>>

\* create_backup, lines 1144-1197: the metadata row, the audit row, commit
\* and release; the primary key rejects an id that is already listed
BkInsert(t) ==
    /\ pc = "backups"
    /\ bkCall[t].pc \in {"cb_insert", "rs_cb_insert"}
    /\ LET id == bkCall[t].nuevo
           op == IF bkCall[t].pc = "cb_insert" THEN "create_backup" ELSE "restore_backup"
       IN  IF id \in bkDb.meta
             THEN /\ BkRaise(t, op, "IntegrityError")
                  /\ UNCHANGED bkDb
             ELSE /\ bkDb' = BkLogAudit([bkDb EXCEPT !.meta = @ \cup {id}],
                                        "backup_created", id)
                  /\ bkLockB' = release(bkLockB)
                  /\ UNCHANGED bkLockR
                  /\ IF bkCall[t].pc = "cb_insert"
                       THEN /\ bkCall' = [bkCall EXCEPT ![t] = BkOciosa]
                            /\ bkRes' = [op |-> "create_backup", code |-> "OK",
                                         restored |-> 0, pre |-> id]
                       ELSE /\ bkCall' = [bkCall EXCEPT ![t].pc = "rs_copy",
                                                        ![t].escribio = TRUE]
                            /\ UNCHANGED bkRes
    /\ UNCHANGED <<BkOtros, bkFiles, bkNow, scVars, tbVars>>

\* restore_backup, lines 1216-1231: the non-blocking acquire, the lookup of
\* the id in list_backups() and the test that its file exists
BkRestoreBackup(t, backup_id) ==
    /\ pc = "backups"
    /\ bkCall[t].pc = "idle"
    /\ IF bkLockR # 0
         THEN /\ bkRes' = BkError("restore_backup", "RESTORE_IN_PROGRESS")
              /\ UNCHANGED <<bkCall, bkLockR, scVars, tbVars>>
         ELSE IF backup_id \notin list_backups(bkDb)
           THEN /\ bkRes' = BkError("restore_backup", "BACKUP_NOT_FOUND")
                /\ UNCHANGED <<bkCall, bkLockR, scVars, tbVars>>
         ELSE IF backup_id \notin DOMAIN bkFiles
           THEN /\ bkRes' = BkError("restore_backup", "BACKUP_FILE_MISSING")
                /\ UNCHANGED <<bkCall, bkLockR, scVars, tbVars>>
         ELSE /\ bkLockR' = t
              /\ bkCall' = [bkCall EXCEPT ![t].pc = "rs_pre", ![t].backup_id = backup_id]
              /\ UNCHANGED bkRes
    /\ UNCHANGED <<BkOtros, bkDb, bkFiles, bkNow, bkLockB, scVars, tbVars>>

\* restore_backup, line 1234: the call of create_backup, its acquire
BkRestorePre(t) ==
    /\ pc = "backups"
    /\ bkCall[t].pc = "rs_pre"
    /\ IF bkLockB # 0
         THEN BkRaise(t, "restore_backup", "BACKUP_OPERATION_IN_PROGRESS")
         ELSE /\ bkLockB' = t
              /\ bkCall' = [bkCall EXCEPT ![t].pc = "rs_cb_copy"]
              /\ UNCHANGED <<bkRes, bkLockR, scVars, tbVars>>
    /\ UNCHANGED <<BkOtros, bkDb, bkFiles, bkNow, scVars, tbVars>>

\* restore_backup, lines 1235-1256: the backup file copied over the live
\* database, the audit row written to the restored database, and the release
BkRestoreCopia(t) ==
    /\ pc = "backups"
    /\ bkCall[t].pc = "rs_copy"
    /\ LET b == bkCall[t].backup_id
       IN  IF b \in DOMAIN bkFiles
             THEN /\ bkDb' = BkLogAudit(SqliteBackup(bkFiles[b]), "backup_restored", b)
                  /\ bkCall' = [bkCall EXCEPT ![t] = BkOciosa]
                  /\ bkRes' = [op |-> "restore_backup", code |-> "OK",
                               restored |-> b, pre |-> bkCall[t].nuevo]
                  /\ bkLockR' = release(bkLockR)
                  /\ UNCHANGED bkLockB
             ELSE /\ bkDb' = SqliteBackup(BkVacia)
                  /\ BkRaise(t, "restore_backup", "OperationalError")
    /\ UNCHANGED <<BkOtros, bkFiles, bkNow, scVars, tbVars>>

\* delete_backup(backup_id)
BkDeleteBackup(t, backup_id) ==
    /\ pc = "backups"
    /\ bkCall[t].pc = "idle"
    /\ IF backup_id \notin bkDb.meta
         THEN /\ bkRes' = BkError("delete_backup", "BACKUP_NOT_FOUND")
              /\ UNCHANGED <<bkDb, bkFiles, scVars, tbVars>>
         ELSE /\ bkFiles' = [i \in DOMAIN bkFiles \ {backup_id} |-> bkFiles[i]]
              /\ bkDb' = BkLogAudit([bkDb EXCEPT !.meta = @ \ {backup_id}],
                                    "backup_deleted", backup_id)
              /\ bkRes' = [op |-> "delete_backup", code |-> "OK",
                           restored |-> 0, pre |-> 0]
    /\ UNCHANGED <<BkOtros, bkNow, bkLockB, bkLockR, bkCall, scVars, tbVars>>

\* a second passes
BkTick ==
    /\ pc = "backups"
    /\ bkNow < MaxNow
    /\ bkNow' = bkNow + 1
    /\ UNCHANGED <<BkOtros, bkDb, bkFiles, bkLockB, bkLockR, bkCall, bkRes, scVars, tbVars>>

BkNext ==
    \/ \E t \in BkThreads : BkCreateBackup(t)
    \/ \E t \in BkThreads, falla \in BOOLEAN : BkCopia(t, falla)
    \/ \E t \in BkThreads : BkInsert(t)
    \/ \E t \in BkThreads, backup_id \in BkIds : BkRestoreBackup(t, backup_id)
    \/ \E t \in BkThreads : BkRestorePre(t)
    \/ \E t \in BkThreads : BkRestoreCopia(t)
    \/ \E t \in BkThreads, backup_id \in BkIds : BkDeleteBackup(t, backup_id)
    \/ BkTick

SpecBackups == BkInit /\ [][BkNext]_vars

\* thread t returns from a successful restore_backup in this step
BkRestoreDevuelve(t) ==
    /\ pc = "backups"
    /\ bkCall[t].pc = "rs_copy"
    /\ bkCall'[t].pc = "idle"
    /\ bkRes' = [op |-> "restore_backup", code |-> "OK",
                 restored |-> bkCall[t].backup_id, pre |-> bkCall[t].nuevo]

\* C24: when restore_backup(b) returns successfully, list_backups holds both
\* b and the pre-restore backup whose id the call returned.
C24_RestoredAndPreRestoreListed ==
    [][\A t \in BkThreads :
          BkRestoreDevuelve(t) =>
              {bkRes'.restored, bkRes'.pre} \subseteq list_backups(bkDb')]_vars

\* the positions inside create_backup, where _BACKUP_LOCK is held
BkEnCreate == {"cb_copy", "cb_insert", "rs_cb_copy", "rs_cb_insert"}

\* the positions inside restore_backup, where _RESTORE_LOCK is held
BkEnRestore == {"rs_pre", "rs_cb_copy", "rs_cb_insert", "rs_copy"}

\* the errors of restore_backup raised for an unknown id, a missing file or
\* a failed pre-restore create_backup
BkErroresPrevios ==
    {"BACKUP_NOT_FOUND", "BACKUP_FILE_MISSING", "BACKUP_OPERATION_IN_PROGRESS",
     "OSError", "IntegrityError"}

\* a call returns in this step
BkDevuelve ==
    \/ bkRes' # bkRes
    \/ \E t \in BkThreads : bkCall[t].pc # "idle" /\ bkCall'[t].pc = "idle"

\* C25: restore_backup overwrites the live database only after its
\* pre-restore backup was committed; when it raises for an unknown id, a
\* missing file or a failed pre-restore create_backup, the call has left the
\* live database unchanged; and a lock is held only while the call that
\* acquired it is running, so a call is rejected as 'in progress' only while
\* another call is inside the guarded operation.
C25_BackupFirstAndLocksReleased ==
    /\ [](pc = "backups" =>
            /\ bkLockB # 0 => bkCall[bkLockB].pc \in BkEnCreate
            /\ bkLockR # 0 => bkCall[bkLockR].pc \in BkEnRestore
            /\ \A t \in BkThreads :
                  /\ bkCall[t].pc \in BkEnCreate => bkLockB = t
                  /\ bkCall[t].pc \in BkEnRestore => bkLockR = t
                  /\ bkCall[t].pc = "rs_copy" =>
                        bkCall[t].escribio /\ bkCall[t].nuevo # 0)
    /\ [][pc = "backups" =>
            /\ \A t \in BkThreads :
                  (bkCall[t].pc # "rs_copy" /\ bkCall[t].pc \in BkEnRestore
                     /\ bkDb' # bkDb /\ bkCall'[t] # bkCall[t])
                    => bkCall'[t].pc = "rs_copy"
            /\ (BkDevuelve /\ bkRes'.op = "restore_backup"
                  /\ bkRes'.code \in BkErroresPrevios)
                 => /\ bkDb' = bkDb
                    /\ \A t \in BkThreads :
                          bkCall'[t].pc = "idle" /\ bkCall[t].pc # "idle"
                            => ~bkCall[t].escribio
            /\ (BkDevuelve /\ bkRes'.code = "BACKUP_OPERATION_IN_PROGRESS")
                 => \E u \in BkThreads : bkCall[u].pc \in BkEnCreate /\ bkLockB = u
            /\ (BkDevuelve /\ bkRes'.code = "RESTORE_IN_PROGRESS")
                 => \E u \in BkThreads : bkCall[u].pc \in BkEnRestore /\ bkLockR = u]_vars

\* restore_backup of a listed backup has just been rejected because the other
\* thread is inside create_backup with the backup lock; the restore lock is
\* free again and the live database is the one the call found
C25_Witness ==
    /\ pc = "backups"
    /\ bkRes = [op |-> "restore_backup", code |-> "BACKUP_OPERATION_IN_PROGRESS",
                restored |-> 0, pre |-> 0]
    /\ bkCall[1].pc = "idle"
    /\ bkCall[2].pc = "cb_insert"
    /\ bkLockB = 2
    /\ bkLockR = 0
    /\ bkDb = [meta |-> {1}, audit |-> <<"backup_created", 1>>]
    /\ 1 \in DOMAIN bkFiles

----------------------------------------------------------------------------
(* arriendos/service.py: _set_active_contract (346-355), _insert_contract  *)
(* (358-398), create_store (401-461), update_store (464-558).  Each call   *)
(* is one SQLite transaction; a call that raises commits nothing.  A       *)
(* contract's id is its position in scContracts.                           *)

\* stores and contract versions the tables may hold
MaxStores == 2

MaxContracts == 3

ScFechas == {1, 2}

\* the payloads of create_store and update_store: name, contract_start
\* (0 when absent) and contract_id (0 when absent)
ScPayloads ==
    [name : {"", "T"}, contract_start : {0} \cup ScFechas,
     contract_id : 0..MaxContracts]

set_active_contract_sin_desactivar(contracts, store_id, contract_id) ==
    [i \in DOMAIN contracts |->
        IF contract_id # 0 /\ i = contract_id
          THEN [contracts[i] EXCEPT !.is_active = 1]
          ELSE contracts[i]]

\* _set_active_contract
set_active_contract(contracts, store_id, contract_id) ==
    [i \in DOMAIN contracts |->
        IF contract_id # 0 /\ i = contract_id
          THEN [contracts[i] EXCEPT !.is_active = 1]
          ELSE IF contracts[i].store_id = store_id
            THEN [contracts[i] EXCEPT !.is_active = 0]
            ELSE contracts[i]]

\* _insert_contract(cursor, store_id, payload, user_id, is_active=True)
insert_contract(contracts, store_id, payload) ==
    Append(contracts, [store_id |-> store_id,
                       contract_start |-> payload.contract_start,
                       is_active |-> 1])

\* a new contract version made the store's active one
NuevaVersion(contracts, store_id, payload) ==
    LET con == insert_contract(contracts, store_id, payload)
    IN  set_active_contract(con, store_id, Len(con))

ScInit ==
    /\ pc = "stores"
    /\ TbIdle
    /\ thM = Unset
    /\ thP = Unset
    /\ thOut = Unset
    /\ rowIn = NoRow
    /\ rowOut = NoRow
    /\ rentFila = NoRow
    /\ PipeIdle
    /\ BeIdle
    /\ UfIdle
    /\ TmIdle
    /\ SrIdle
    /\ StIdle
    /\ FwIdle
    /\ BkIdle
    /\ scStores \in {{}, {1}}
    /\ scContracts = <<>>
    /\ scAudit = {}
    /\ scLast = NoCall

ScOtros ==
    <<pc, thVars, rowVars, pipeVars, beVars, ufVars, tmVars, srVars, stVars, fwVars,
      bkVars, tbVars>>

\* create_store(payload, user_id); conflicto is a UNIQUE violation of
\* store_code
CreateStore(payload, conflicto) ==
    /\ pc = "stores"
    /\ IF payload.name = "" \/ payload.contract_start = 0
         THEN /\ scLast' = [op |-> "create_store", code |-> "VALIDATION_ERROR"]
              /\ UNCHANGED <<scStores, scContracts, scAudit, tbVars>>
         ELSE IF conflicto
           THEN /\ scLast' = [op |-> "create_store", code |-> "STORE_CONFLICT"]
                /\ UNCHANGED <<scStores, scContracts, scAudit, tbVars>>
         ELSE /\ Cardinality(scStores) < MaxStores
              /\ Len(scContracts) < MaxContracts
              /\ LET store_id == Cardinality(scStores) + 1
                 IN  /\ scStores' = scStores \cup {store_id}
                     /\ scContracts' = NuevaVersion(scContracts, store_id, payload)
                     /\ scAudit' = scAudit \cup {<<"store_created", store_id>>}
              /\ scLast' = [op |-> "create_store", code |-> "OK"]
    /\ UNCHANGED ScOtros

\* update_store(store_id, payload, user_id); conflicto is a constraint
\* violation of the UPDATE of table stores, which leaves the call uncommitted
UpdateStore(store_id, payload, conflicto) ==
    /\ pc = "stores"
    /\ IF store_id \notin scStores
         THEN /\ scLast' = [op |-> "update_store", code |-> "STORE_NOT_FOUND"]
              /\ UNCHANGED <<scStores, scContracts, scAudit, tbVars>>
         ELSE IF conflicto \/ payload.name = ""
           THEN /\ scLast' = [op |-> "update_store", code |-> "IntegrityError"]
                /\ UNCHANGED <<scStores, scContracts, scAudit, tbVars>>
         ELSE /\ IF payload.contract_start = 0
                   THEN UNCHANGED scContracts
                   ELSE IF /\ payload.contract_id # 0
                           /\ payload.contract_id \in DOMAIN scContracts
                           /\ scContracts[payload.contract_id].store_id = store_id
                     THEN scContracts' =
                            [scContracts EXCEPT
                               ![payload.contract_id].contract_start =
                                   payload.contract_start]
                     ELSE /\ Len(scContracts) < MaxContracts
                          /\ scContracts' = NuevaVersion(scContracts, store_id, payload)
              /\ scAudit' = scAudit \cup {<<"store_updated", store_id>>}
              /\ scLast' = [op |-> "update_store", code |-> "OK"]
              /\ UNCHANGED scStores
    /\ UNCHANGED ScOtros

ScNext ==
    \/ \E payload \in ScPayloads, conflicto \in BOOLEAN : CreateStore(payload, conflicto)
    \/ \E store_id \in 1..MaxStores, payload \in ScPayloads, conflicto \in BOOLEAN :
          UpdateStore(store_id, payload, conflicto)

SpecStores == ScInit /\ [][ScNext]_vars

\* the ids of the active contracts of a store
ScActivos(store_id) ==
    {i \in DOMAIN scContracts :
        scContracts[i].store_id = store_id /\ scContracts[i].is_active = 1}

\* C26: after any sequence of create_store and update_store calls every
\* store has at most one contract with is_active = 1, and a store created by
\* create_store has exactly one.
C26_OneActiveContract ==
    pc = "stores" =>
        \A s \in scStores :
            /\ Cardinality(ScActivos(s)) <= 1
            /\ <<"store_created", s>> \in scAudit => Cardinality(ScActivos(s)) = 1

\* a store made by create_store whose contract was replaced by a new version
\* through update_store: the new version is the only active one
C26_Witness ==
    /\ pc = "stores"
    /\ <<"store_created", 1>> \in scAudit
    /\ <<"store_updated", 1>> \in scAudit
    /\ Len(scContracts) = 3
    /\ \A i \in 1..3 : scContracts[i].store_id = 1
    /\ ScActivos(1) = {3}

----------------------------------------------------------------------------
(* Claims on the shape of the break-even curve of one store.               *)

\* every cost parameter of the store is non-negative
BeNoNegativos ==
    \A x \in {beIn.Costo_dotacion_fijo, beIn.Vendedores_comision,
              beIn.Tasa_comision_sumada, beIn.Tasa_total_ventas,
              beIn.Arriendo_vmm_uf, beIn.Arriendo_porcentual,
              beIn.Arriendo_fondo_promocion_pct, beIn.Arriendo_factor,
              beIn.Arriendo_GGCC, beIn.Total_otros_costos,
              beIn.Comision_medio_pago, beIn.Redes_sistemas,
              beIn.uf_referencia} : RGe(x, R(0))

\* C27: for a store with non-negative cost parameters the required sales is
\* monotone in the margin: once Venta_necesaria is non-NaN at a grid point it
\* is non-NaN at every larger one, and it never increases with the margin.
C27_MonotoneInMargin ==
    (pc = "breakeven" /\ BeNoNegativos) =>
        \A i, j \in 1..Len(beRes) :
            (i < j /\ ~IsNaN(beRes[i].Venta_necesaria)) =>
                /\ ~IsNaN(beRes[j].Venta_necesaria)
                /\ RLe(beRes[j].Venta_necesaria, beRes[i].Venta_necesaria)

\* a store that breaks even only in the percentage-rent regime at one margin
\* and, with less sales, only in the fixed-rent regime at a larger one
C27_Witness ==
    /\ pc = "breakeven"
    /\ BeNoNegativos
    /\ \E i, j \in 1..Len(beRes) :
          /\ i < j
          /\ IsNaN(VentaCasoMinimo(beIn, BeMargenDe(i)))
          /\ beRes[i].Venta_necesaria = VentaCasoVariable(beIn, BeMargenDe(i))
          /\ IsNaN(VentaCasoVariable(beIn, BeMargenDe(j)))
          /\ beRes[j].Venta_necesaria = VentaCasoMinimo(beIn, BeMargenDe(j))
          /\ RGt(beRes[j].Venta_necesaria, R(0))
          /\ RLt(beRes[j].Venta_necesaria, beRes[i].Venta_necesaria)
    /\ IsNaN(beRes[1].Venta_necesaria)

----------------------------------------------------------------------------
\* C28: in every row of build_eerr's output with positive sales,
\* Arriendo_fijo is the minimum rent (Arriendo_vmm_uf x monthly UF average x
\* the December factor that applies) in both rent regimes, and
\* Arriendo_variable is max(0, Ventas x Arriendo_porcentual - minimum rent),
\* which is never negative.
C28_FixedIsMinimumRent ==
    (RowDone /\ RGt(rowIn.Ventas, R(0))) =>
        /\ rowOut.m.Arriendo_fijo = RowMinimumRent
        /\ rowOut.m.Arriendo_variable =
              RMax(R(0), RSub(RowPercentRent, RowMinimumRent))
        /\ RGe(rowOut.m.Arriendo_variable, R(0))

\* a November row of a store with factor 2 in the percentage regime: the
\* fixed part is the minimum rent without the factor, the rest is variable
C28_Witness ==
    /\ RowDone
    /\ RGt(rowIn.Ventas, R(0))
    /\ rowIn.Mes[2] = 11
    /\ rowIn.Arriendo_factor = R(2)
    /\ RGt(RowMinimumRent, R(0))
    /\ rowOut.m.Arriendo_fijo = RMul(rowIn.Arriendo_vmm_uf, rowIn.UF_promedio)
    /\ RGt(rowOut.m.Arriendo_variable, R(0))
    /\ RAdd(rowOut.m.Arriendo_fijo, rowOut.m.Arriendo_variable) = RowPercentRent

(***************************************************************************)
(* domain/eerr.py: build_break_even_table (lines 138-232), the loop over   *)
(* its own margin grid for one row of the store base, run after the        *)
(* full-range table of the same row.                                       *)

\* math.floor and math.ceil of a finite number
Floor(a) == a[1] \div a[2]

Ceil(a) == -((-a[1]) \div a[2])

\* limite_inferior and limite_superior before the exchange
LimitesTabla(in) ==
    IF IsNaN(in.Margen_min) \/ IsNaN(in.Margen_max)
      THEN <<Frac(1, 20), Frac(4, 5)>>
      ELSE <<RMax(R(0), RSub(in.Margen_min, Frac(1, 10))),
             RMin(R(1), RAdd(in.Margen_max, Frac(1, 10)))>>

LimiteInferior(in) ==
    LET l == LimitesTabla(in) IN IF RLt(l[2], l[1]) THEN l[2] ELSE l[1]

LimiteSuperior(in) ==
    LET l == LimitesTabla(in) IN IF RLt(l[2], l[1]) THEN l[1] ELSE l[2]

\* inicio_paso = max(0, floor(limite_inferior * 1000))
InicioPasoTabla(in) ==
    LET f == Floor(RMul(LimiteInferior(in), R(1000))) IN IF f < 0 THEN 0 ELSE f

\* fin_paso = min(1000, ceil(limite_superior * 1000)), at least inicio_paso
FinPasoTabla(in) ==
    LET c == Ceil(RMul(LimiteSuperior(in), R(1000)))
        f == IF c > 1000 THEN 1000 ELSE c
    IN  IF f < InicioPasoTabla(in) THEN InicioPasoTabla(in) ELSE f

\* margen_decimal = paso / 1000
MargenDecimalTabla(paso) == Frac(paso, 1000)

\* Tasa_variable_total of the table: no payment commission
TasaVariableTabla(in) ==
    RAdd(RAdd(TasaComisionVendedores(in), in.Tasa_total_ventas), in.Total_otros_costos)

\* the minimum rent with the factor left out
ArriendoMinimoTablaSinFactor(in) == RMul(in.Arriendo_vmm_uf, in.uf_referencia)

\* arriendo_minimo_clp: the factor applies whenever the last month is a December
ArriendoMinimoTabla(in) ==
    RMul(RMul(in.Arriendo_vmm_uf, in.uf_referencia),
         IF EsDiciembre(in) THEN in.Arriendo_factor ELSE R(1))

\* umbral_variable
UmbralTabla(in) ==
    LET u == variable_rent_threshold(ArriendoMinimoTabla(in), in.Arriendo_porcentual)
    IN  IF u = None THEN Inf ELSE u

\* venta_requerida of one grid point of the table
VentaRequeridaTabla(in, margen_decimal) ==
    LET denom_minimo == RSub(margen_decimal, TasaVariableTabla(in))
        numerador_minimo ==
            RAdd(RAdd(in.Costo_dotacion_fijo,
                      RMul(ArriendoMinimoTabla(in),
                           RAdd(R(1), in.Arriendo_fondo_promocion_pct))),
                 in.Arriendo_GGCC)
        venta_posible == RDiv(numerador_minimo, denom_minimo)
        v1 == IF RGt(denom_minimo, R(0))
                   /\ (in.Arriendo_porcentual = R(0)
                       \/ LeTol(venta_posible, UmbralTabla(in)))
                THEN venta_posible
                ELSE NaN
        tasa_arriendo_variable ==
            RMul(in.Arriendo_porcentual, RAdd(R(1), in.Arriendo_fondo_promocion_pct))
        denom_variable ==
            RSub(RSub(margen_decimal, TasaVariableTabla(in)), tasa_arriendo_variable)
        numerador_variable == RAdd(in.Costo_dotacion_fijo, in.Arriendo_GGCC)
        venta_variable == RDiv(numerador_variable, denom_variable)
        v2 == IF RGt(in.Arriendo_porcentual, R(0))
                   /\ RGt(denom_variable, R(0))
                   /\ GeTol(venta_variable, UmbralTabla(in))
                THEN venta_variable
                ELSE NaN
        venta == IF IsNaN(v2) THEN v1
                 ELSE IF IsNaN(v1) THEN v2
                 ELSE RMin(v1, v2)
    IN  IF ~IsNaN(venta) /\ RLt(venta, R(0)) THEN NaN ELSE venta

\* the steps of the table's grid the model follows: every 125th of the
\* thousand, which holds the points shared with the full-range grid and
\* as many that are not on it
TablaPasos == {125 * k : k \in 0..8}

\* the next followed step of range(inicio_paso, fin_paso + 1), 1001 when done
SiguientePasoTabla(in, desde) ==
    LET resto == {p \in TablaPasos :
                    /\ p >= desde
                    /\ p >= InicioPasoTabla(in)
                    /\ p <= FinPasoTabla(in)}
    IN  IF resto = {} THEN 1001
        ELSE CHOOSE p \in resto : \A q \in resto : p <= q

\* Margen_min and Margen_max of the base row: no contribution data, or the
\* least and greatest margin of the store's history
TablaMargenes == {<<NaN, NaN>>, <<Frac(1, 4), Frac(1, 2)>>, <<Frac(9, 10), R(1)>>}

TablaInit ==
    /\ pc = "breakeven"
    /\ ScIdle
    /\ BkIdle
    /\ FwIdle
    /\ StIdle
    /\ thM = Unset
    /\ thP = Unset
    /\ thOut = Unset
    /\ rowIn = NoRow
    /\ rowOut = NoRow
    /\ rentFila = NoRow
    /\ PipeIdle
    /\ UfIdle
    /\ TmIdle
    /\ SrIdle
    /\ \E st \in BeStaff, rt \in BeRent, mp \in BeMedioPago, red \in BeRedes,
          mr \in {11, 12}, usar \in BOOLEAN, mg \in TablaMargenes :
            beIn = [Sucursal |-> "A",
                    Costo_dotacion_fijo |-> st[1], Vendedores_comision |-> st[2],
                    Tasa_comision_sumada |-> st[3], Tasa_total_ventas |-> R(0),
                    Arriendo_vmm_uf |-> rt[1], Arriendo_porcentual |-> rt[2],
                    Arriendo_fondo_promocion_pct |-> rt[3],
                    Arriendo_factor |-> rt[4], Arriendo_GGCC |-> rt[5],
                    Total_otros_costos |-> R(0), Comision_medio_pago |-> mp,
                    Redes_sistemas |-> red, uf_referencia |-> R(1),
                    mes_referencia |-> mr, usar_factor_diciembre |-> usar,
                    margen_paso |-> Frac(100, GridSteps),
                    Margen_min |-> mg[1], Margen_max |-> mg[2]]
    /\ bePaso = 0
    /\ beRes = <<>>
    /\ tbPaso = 0
    /\ beTabla = <<>>

\* one pass of the table's loop body: solve the grid point and append the row
BeTablaPaso ==
    /\ pc = "breakeven"
    /\ bePaso > FinPaso(beIn)
    /\ LET paso == SiguientePasoTabla(beIn, tbPaso)
       IN  /\ paso <= FinPasoTabla(beIn)
           /\ beTabla' = Append(beTabla,
                  [Sucursal |-> beIn.Sucursal,
                   Margen_contribucion |-> RMul(MargenDecimalTabla(paso), R(100)),
                   Venta_necesaria |->
                       VentaRequeridaTabla(beIn, MargenDecimalTabla(paso))])
           /\ tbPaso' = paso + 1
    /\ UNCHANGED <<pc, thVars, rowVars, pipeVars, beVars, ufVars, tmVars, srVars, stVars, fwVars, bkVars, scVars>>

TablaNext == BeSolvePaso \/ BeTablaPaso

SpecTablas == TablaInit /\ [][TablaNext]_vars

\* C29: with no network cost, no payment commission and the December
\* factor asked for, the full-range table and the table of
\* build_break_even_table hold the same Venta_necesaria (or both NaN) for
\* the store at every margin that has a row in both.
C29_TablesAgree ==
    (/\ pc = "breakeven"
     /\ beIn.Redes_sistemas = R(0)
     /\ beIn.Comision_medio_pago = R(0)
     /\ beIn.usar_factor_diciembre) =>
        \A i \in 1..Len(beRes), j \in 1..Len(beTabla) :
            (/\ beRes[i].Sucursal = beTabla[j].Sucursal
             /\ beRes[i].Margen_contribucion = beTabla[j].Margen_contribucion) =>
                beRes[i].Venta_necesaria = beTabla[j].Venta_necesaria

\* C29 witness: a December store with factor 2 and both rent terms, both
\* tables hold a row for margin 50% with the same positive sales value, and
\* the table also holds a row the full-range grid has not
C29_Witness ==
    /\ pc = "breakeven"
    /\ beIn.Redes_sistemas = R(0)
    /\ beIn.Comision_medio_pago = R(0)
    /\ beIn.usar_factor_diciembre
    /\ beIn.mes_referencia = 12
    /\ beIn.Arriendo_factor = R(2)
    /\ RGt(beIn.Arriendo_vmm_uf, R(0))
    /\ RGt(beIn.Arriendo_porcentual, R(0))
    /\ \E i \in 1..Len(beRes), j \in 1..Len(beTabla) :
          /\ beRes[i].Margen_contribucion = R(50)
          /\ beTabla[j].Margen_contribucion = R(50)
          /\ ~IsNaN(beTabla[j].Venta_necesaria)
          /\ RGt(beTabla[j].Venta_necesaria, R(0))
          /\ beRes[i].Venta_necesaria = beTabla[j].Venta_necesaria
    /\ \E j \in 1..Len(beTabla) :
          \A i \in 1..Len(beRes) :
              beRes[i].Margen_contribucion # beTabla[j].Margen_contribucion

(***************************************************************************)
(* The full-range solver on stores whose fixed-rent solution falls within  *)
(* 1e-9 of the variable-rent threshold, next to the stores of BeInit.      *)

\* base rows at the edge of the tolerance: minimum rent, fixed staff cost
BordeArriendo == {R(4), R(340000001)}

BordeDotacion == {R(2), R(170000001)}

BordeInit ==
    /\ pc = "breakeven"
    /\ ScIdle
    /\ BkIdle
    /\ FwIdle
    /\ StIdle
    /\ TbIdle
    /\ thM = Unset
    /\ thP = Unset
    /\ thOut = Unset
    /\ rowIn = NoRow
    /\ rowOut = NoRow
    /\ rentFila = NoRow
    /\ PipeIdle
    /\ UfIdle
    /\ TmIdle
    /\ SrIdle
    /\ \E vmm \in BordeArriendo, dot \in BordeDotacion, por \in {R(0), Frac(1, 3)},
          mr \in {11, 12}, usar \in BOOLEAN :
            beIn = [Sucursal |-> "A",
                    Costo_dotacion_fijo |-> dot, Vendedores_comision |-> R(0),
                    Tasa_comision_sumada |-> R(0), Tasa_total_ventas |-> R(0),
                    Arriendo_vmm_uf |-> vmm, Arriendo_porcentual |-> por,
                    Arriendo_fondo_promocion_pct |-> R(0),
                    Arriendo_factor |-> R(1), Arriendo_GGCC |-> R(0),
                    Total_otros_costos |-> R(0), Comision_medio_pago |-> R(0),
                    Redes_sistemas |-> R(0), uf_referencia |-> R(1),
                    mes_referencia |-> mr, usar_factor_diciembre |-> usar,
                    margen_paso |-> R(50)]
    /\ bePaso = 0
    /\ beRes = <<>>

SpecBorde == (BeInit \/ BordeInit) /\ [][BeNext]_vars

\* |a - u| <= u * 1e-9 for a positive threshold u
CercaDelUmbral(a, u) ==
    /\ u # Inf
    /\ LET d == a[1] * u[2] - u[1] * a[2]
       IN  (IF d < 0 THEN -d ELSE d) <= (u[1] * a[2]) \div TolDen

\* both regime equations give an accepted solution at row i
BeAmbasAceptadas(i) ==
    /\ ~IsNaN(VentaCasoMinimo(beIn, BeMargenDe(i)))
    /\ ~IsNaN(VentaCasoVariable(beIn, BeMargenDe(i)))

\* C30 as stated: whenever both the fixed-rent and the percentage-rent
\* solution are accepted at a grid point, each of the two lies within the
\* relative tolerance 1e-9 of the variable-rent threshold.
C30_BothCoincideWithThreshold ==
    pc = "breakeven" =>
        \A i \in 1..Len(beRes) :
            BeAmbasAceptadas(i) =>
                /\ CercaDelUmbral(VentaCasoMinimo(beIn, BeMargenDe(i)), BeUmbral(beIn))
                /\ CercaDelUmbral(VentaCasoVariable(beIn, BeMargenDe(i)), BeUmbral(beIn))

\* C30 amended: whenever both solutions are accepted at a grid point, the
\* fixed-rent solution lies within 1e-9 of the threshold, the
\* percentage-rent solution is not below threshold x (1 - 1e-9), and the
\* returned Venta_necesaria is the smaller of the two and lies within 1e-9
\* of the threshold; the percentage-rent solution itself may lie further
\* above the threshold.
C30_SmallerWithinTolerance ==
    pc = "breakeven" =>
        \A i \in 1..Len(beRes) :
            BeAmbasAceptadas(i) =>
                LET v1 == VentaCasoMinimo(beIn, BeMargenDe(i))
                    v2 == VentaCasoVariable(beIn, BeMargenDe(i))
                    u  == BeUmbral(beIn)
                IN  /\ CercaDelUmbral(v1, u)
                    /\ GeTol(v2, u)
                    /\ beRes[i].Venta_necesaria = RMin(v1, v2)
                    /\ CercaDelUmbral(beRes[i].Venta_necesaria, u)
                    /\ (v1 # v2 => (RLt(u, v1) /\ RLt(v1, v2)) \/ (RLt(v2, v1) /\ RLt(v1, u)))

\* C30 witness: at margin 50% both solutions are accepted, the fixed-rent
\* one a hair above the threshold and returned, the percentage-rent one
\* further from the threshold than the tolerance
C30_Witness ==
    /\ pc = "breakeven"
    /\ \E i \in 1..Len(beRes) :
          /\ beRes[i].Margen_contribucion = R(50)
          /\ BeAmbasAceptadas(i)
          /\ RLt(BeUmbral(beIn), VentaCasoMinimo(beIn, BeMargenDe(i)))
          /\ ~CercaDelUmbral(VentaCasoVariable(beIn, BeMargenDe(i)), BeUmbral(beIn))
          /\ beRes[i].Venta_necesaria = VentaCasoMinimo(beIn, BeMargenDe(i))

====
